---- MODULE Spec2Model ----
(***************************************************************************)
(* A model of the VkMOL rendering engine (src/vkmol/src/engine/Engine.cpp): *)
(* physical-device selection, initialization, the swapchain-dependent       *)
(* object chain with its recreation, and the per-frame acquire / submit /   *)
(* present cycle with its fences.                                           *)
(*                                                                          *)
(* Native objects are identified by the swapchain generation in which they  *)
(* were created (0 is the null handle), and the extent and format chosen    *)
(* for the swapchain of generation g are written g.  A vk::Result is a      *)
(* string; the                                                              *)
(* error reported by a failing API call site is named after the site.       *)
(***************************************************************************)
EXTENDS Integers, Sequences, FiniteSets, TLC

VARIABLES
  Devices,        \* what Instance->enumeratePhysicalDevices() reports
  E,              \* the Engine object's fields
  CurrentFrame,   \* the frame cursor
  pc,             \* where the single CPU thread is
  ret,            \* the vk::Result the last finished operation returned
  calls,          \* the calls made by the running (or last finished) operation
  fenceSignaled,  \* InFlightFences[i] is signaled
  inFlight,       \* submissions that will signal InFlightFences[i], not yet complete
  ImageIndex,     \* drawFrame's local ImageIndex
  Submitted,      \* the command buffer drawFrame handed to GraphicsQueue.submit
  uboRace,        \* the running drawFrame wrote the uniform buffer with a frame in flight
  Candidates,     \* createPhysicalDevice's local multimap
  faults,         \* how many API calls have reported an error so far
  args,           \* the arguments of a call of one of the selection helpers
  result,         \* what that call returned
  Sync            \* the slots whose semaphores and fence the running drawFrame used

vars == <<Devices, E, CurrentFrame, pc, ret, calls, fenceSignaled, inFlight,
          ImageIndex, Submitted, uboRace, Candidates, faults, args, result, Sync>>

-----------------------------------------------------------------------------
(* Bounds of the model. *)

MaxDevices == 2
MaxImages == 1
MaxGeneration == 2
MaxFaults == 1

(* Program constants. *)

MaxFramesInFlight == 2

Slots == 0..(MaxFramesInFlight - 1)

-----------------------------------------------------------------------------
(* Results and the environment of one operation. *)

Stale == {"eErrorOutOfDateKHR", "eSuboptimalKHR"}

\* VKMOL_GUARD(Result): return Result from the enclosing function unless it
\* is eSuccess.
Guard(Result) == Result # "eSuccess"

\* The result of the API call made at `site` in environment env: the call
\* fails (with the error named after the site) iff env.fail holds the site.
ApiResult(env, site) == IF site \in env.fail THEN site ELSE "eSuccess"

Normal == 1
Wireframe == 2

-----------------------------------------------------------------------------
(* Capability probing and device scoring. *)

DeviceTypes == {"eDiscreteGpu", "eIntegratedGpu", "eCpu"}

\* What the probes report of a physical device.  The devices enumerated
\* are those that meet every viability predicate and those that fail one.
Capabilities ==
  {"queueFamiliesComplete", "extensionsSupported", "hasFormats",
   "hasPresentModes", "fillModeNonSolid"}

PhysicalDevices ==
  {d \in [queueFamiliesComplete : BOOLEAN, extensionsSupported : BOOLEAN,
          hasFormats : BOOLEAN, hasPresentModes : BOOLEAN,
          fillModeNonSolid : BOOLEAN, deviceType : DeviceTypes] :
     \A c1, c2 \in Capabilities : ~d[c1] /\ ~d[c2] => c1 = c2}

queryQueueFamilies(Device, env, site) ==
  IF Guard(ApiResult(env, site))
  THEN [Result |-> ApiResult(env, site), complete |-> FALSE]
  ELSE [Result |-> "eSuccess", complete |-> Device.queueFamiliesComplete]

checkDeviceExtensionSupport(Device, env) ==
  IF Guard(ApiResult(env, "enumerateDeviceExtensionProperties"))
  THEN [Result |-> ApiResult(env, "enumerateDeviceExtensionProperties"),
        supported |-> FALSE]
  ELSE [Result |-> "eSuccess", supported |-> Device.extensionsSupported]

querySwapchainSupport(Device, env, site) ==
  IF Guard(ApiResult(env, site))
  THEN [Result |-> ApiResult(env, site), Formats |-> FALSE, PresentModes |-> FALSE]
  ELSE [Result |-> "eSuccess", Formats |-> Device.hasFormats,
        PresentModes |-> Device.hasPresentModes]

scoreDevice(Device, env) ==
  LET Q == queryQueueFamilies(Device, env, "scoreDevice:getSurfaceSupportKHR")
      X == checkDeviceExtensionSupport(Device, env)
      S == querySwapchainSupport(Device, env, "scoreDevice:querySwapchainSupport")
      NonViable == [Result |-> "eSuccess", Score |-> 0, Features |-> FALSE]
  IN  IF Guard(Q.Result) THEN [Result |-> Q.Result, Score |-> 0, Features |-> FALSE]
      ELSE IF ~Q.complete THEN NonViable
      ELSE IF Guard(X.Result) THEN [Result |-> X.Result, Score |-> 0, Features |-> FALSE]
      ELSE IF ~X.supported THEN NonViable
      ELSE IF Guard(S.Result) THEN [Result |-> S.Result, Score |-> 0, Features |-> FALSE]
      ELSE IF ~S.Formats \/ ~S.PresentModes THEN NonViable
      ELSE IF ~Device.fillModeNonSolid THEN NonViable
      ELSE [Result |-> "eSuccess",
            Score |-> 0 + (CASE Device.deviceType = "eDiscreteGpu" -> 1000
                             [] Device.deviceType = "eIntegratedGpu" -> 100
                             [] OTHER -> 0),
            Features |-> TRUE]

\* std::multimap<int, ...>::insert: the entry goes after every entry whose
\* key is not greater (the upper bound of its equal range).
MultimapInsert(M, entry) ==
  LET k == Cardinality({i \in 1..Len(M) : M[i].Score <= entry.Score})
  IN  SubSeq(M, 1, k) \o <<entry>> \o SubSeq(M, k + 1, Len(M))

\* The scoring loop of createPhysicalDevice from device I on, with the
\* candidates M inserted so far.
RECURSIVE ScoreDevices(_, _, _, _)
ScoreDevices(Devs, I, env, M) ==
  IF I > Len(Devs) THEN [Result |-> "eSuccess", Candidates |-> M]
  ELSE LET S == scoreDevice(Devs[I], env)
       IN  IF Guard(S.Result) THEN [Result |-> S.Result, Candidates |-> M]
           ELSE ScoreDevices(Devs, I + 1, env,
                  MultimapInsert(M, [Score |-> S.Score, Device |-> I,
                                     Features |-> S.Features]))

\* A createPhysicalDevice that goes on with the candidates scored so far when
\* a probe fails.
createPhysicalDevice_IgnoreProbeError(e, env, Devs) ==
  LET Enum == ApiResult(env, "enumeratePhysicalDevices")
      Scored == ScoreDevices(Devs, 1, env, <<>>)
      Top == Scored.Candidates[Len(Scored.Candidates)]
  IN  IF Guard(Enum)
      THEN [Result |-> Enum, e |-> e, failed |-> {Enum}, Candidates |-> <<>>]
      ELSE IF Devs = <<>> \/ Scored.Candidates = <<>>
      THEN [Result |-> "eErrorInitializationFailed", e |-> e,
            failed |-> {Scored.Result} \ {"eSuccess"}, Candidates |-> <<>>]
      ELSE [Result |-> "eSuccess",
            e |-> [e EXCEPT !.PhysicalDevice = Top.Device,
                            !.PhysicalDeviceFeatures = Top.Features],
            failed |-> {Scored.Result} \ {"eSuccess"},
            Candidates |-> Scored.Candidates]

createPhysicalDevice(e, env, Devs) ==
  LET Enum == ApiResult(env, "enumeratePhysicalDevices")
      Scored == ScoreDevices(Devs, 1, env, <<>>)
      Top == Scored.Candidates[Len(Scored.Candidates)]
  IN  IF Guard(Enum)
      THEN [Result |-> Enum, e |-> e, failed |-> {Enum}, Candidates |-> <<>>]
      ELSE IF Devs = <<>>
      THEN [Result |-> "eErrorInitializationFailed", e |-> e, failed |-> {},
            Candidates |-> <<>>]
      ELSE IF Guard(Scored.Result)
      THEN [Result |-> Scored.Result, e |-> e, failed |-> {Scored.Result},
            Candidates |-> Scored.Candidates]
      ELSE IF Top.Score < 0
      THEN [Result |-> "eErrorInitializationFailed", e |-> e, failed |-> {},
            Candidates |-> Scored.Candidates]
      ELSE [Result |-> "eSuccess",
            e |-> [e EXCEPT !.PhysicalDevice = Top.Device,
                            !.PhysicalDeviceFeatures = Top.Features],
            failed |-> {}, Candidates |-> Scored.Candidates]

-----------------------------------------------------------------------------
(* The Engine object and the functions that create its fields. *)

EngineConstructed ==
  [Instance |-> FALSE, Surface |-> FALSE, Callback |-> FALSE,
   PhysicalDevice |-> 0, PhysicalDeviceFeatures |-> FALSE, Device |-> FALSE,
   Generation |-> 0, Swapchain |-> 0, SwapchainImages |-> <<>>,
   SwapchainImageViews |-> <<>>, RenderPass |-> 0,
   DescriptorSetLayout |-> FALSE, PipelineLayout |-> FALSE,
   GraphicsPipelines |-> <<>>, SwapchainFramebuffers |-> <<>>,
   CommandPool |-> FALSE, VertexBuffer |-> FALSE, IndexBuffer |-> FALSE,
   UniformBuffer |-> FALSE, DescriptorPool |-> FALSE, DescriptorSets |-> FALSE,
   CommandBuffers |-> <<>>, ActivePipeline |-> Normal, SyncObjects |-> FALSE,
   SwapchainExtent |-> 0, SwapchainImageFormat |-> 0,
   FramebufferExtents |-> <<>>, PipelineViewports |-> <<>>,
   Overlap |-> {}, oldSwapchain |-> 0]

\* "Member = take(create...())" and "Vector[I] = take(create...())": the new
\* object is constructed first and the member's previous object is released
\* by the assignment.  Overlap holds the kinds of object of which, within
\* the running (or last) operation, a new one was constructed while the
\* previous one (`old` non-null) still existed.
Assigned(e, kind, old) ==
  [e EXCEPT !.Overlap = IF old THEN @ \cup {kind} ELSE @]

\* std::vector<UniqueHandle>::resize(n): the first handles are kept, the
\* handles beyond n are released, new elements are null.
VectorResize(s, n) == [i \in 1..n |-> IF i <= Len(s) THEN s[i] ELSE 0]

\* A command buffer that was allocated and not recorded.
Unrecorded ==
  [renderPass |-> 0, framebuffer |-> 0, pipeline |-> 0, variant |-> 0, renderArea |-> 0]

\* What a function reports: its vk::Result, the engine after it, and the
\* API call sites that failed inside it.
Out(Result, e, failed) == [Result |-> Result, e |-> e, failed |-> failed]

\* The sites among S that fail in env.
Failing(env, S) == env.fail \cap S

createInstance(e, env) ==
  IF Guard(ApiResult(env, "createInstanceUnique"))
  THEN Out("createInstanceUnique", [e EXCEPT !.Instance = FALSE],
           {"createInstanceUnique"})
  ELSE Out("eSuccess", [e EXCEPT !.Instance = TRUE], {})

createSurface(e, env) ==
  IF Guard(ApiResult(env, "SurfaceFactory"))
  THEN Out("SurfaceFactory", e, {"SurfaceFactory"})
  ELSE Out("eSuccess", [e EXCEPT !.Surface = TRUE], {})

installDebugCallback(e, env) ==
  IF Guard(ApiResult(env, "createDebugReportCallbackEXTUnique"))
  THEN Out("createDebugReportCallbackEXTUnique", [e EXCEPT !.Callback = FALSE],
           {"createDebugReportCallbackEXTUnique"})
  ELSE Out("eSuccess", [e EXCEPT !.Callback = TRUE], {})

createLogicalDevice(e, env) ==
  IF Guard(ApiResult(env, "createLogicalDevice:getSurfaceSupportKHR"))
  THEN Out("createLogicalDevice:getSurfaceSupportKHR", e,
           {"createLogicalDevice:getSurfaceSupportKHR"})
  ELSE IF Guard(ApiResult(env, "createDeviceUnique"))
  THEN Out("createDeviceUnique", [e EXCEPT !.Device = FALSE], {"createDeviceUnique"})
  ELSE Out("eSuccess", [e EXCEPT !.Device = TRUE], {})

\* A createSwapchain that chains the new swapchain to no prior one.
createSwapchain_NullOldSwapchain(e, env) ==
  LET g == e.Generation + 1
      made == [Assigned(e, "Swapchain", e.Swapchain # 0)
                 EXCEPT !.Generation = g, !.Swapchain = g, !.oldSwapchain = 0]
  IN  IF Guard(ApiResult(env, "createSwapchain:querySwapchainSupport"))
      THEN Out("createSwapchain:querySwapchainSupport", e,
               {"createSwapchain:querySwapchainSupport"})
      ELSE IF Guard(ApiResult(env, "createSwapchain:getSurfaceSupportKHR"))
      THEN Out("createSwapchain:getSurfaceSupportKHR", e,
               {"createSwapchain:getSurfaceSupportKHR"})
      ELSE IF Guard(ApiResult(env, "createSwapchainKHRUnique"))
      THEN Out("createSwapchainKHRUnique",
               [e EXCEPT !.Swapchain = 0, !.oldSwapchain = 0],
               {"createSwapchainKHRUnique"})
      ELSE IF Guard(ApiResult(env, "getSwapchainImagesKHR"))
      THEN Out("getSwapchainImagesKHR", [made EXCEPT !.SwapchainImages = <<>>],
               {"getSwapchainImagesKHR"})
      ELSE Out("eSuccess",
               [made EXCEPT !.SwapchainImages = [i \in 1..env.images |-> g],
                            !.SwapchainImageFormat = g,
                            !.SwapchainExtent = g], {})

\* oldSwapchain is the CreateInfo.oldSwapchain of the engine's last call of
\* createSwapchainKHRUnique.
createSwapchain(e, env) ==
  LET g == e.Generation + 1
      made == [Assigned(e, "Swapchain", e.Swapchain # 0)
                 EXCEPT !.Generation = g, !.Swapchain = g,
                        !.oldSwapchain = e.Swapchain]
  IN  IF Guard(ApiResult(env, "createSwapchain:querySwapchainSupport"))
      THEN Out("createSwapchain:querySwapchainSupport", e,
               {"createSwapchain:querySwapchainSupport"})
      ELSE IF Guard(ApiResult(env, "createSwapchain:getSurfaceSupportKHR"))
      THEN Out("createSwapchain:getSurfaceSupportKHR", e,
               {"createSwapchain:getSurfaceSupportKHR"})
      ELSE IF Guard(ApiResult(env, "createSwapchainKHRUnique"))
      THEN Out("createSwapchainKHRUnique",
               [e EXCEPT !.Swapchain = 0, !.oldSwapchain = e.Swapchain],
               {"createSwapchainKHRUnique"})
      ELSE IF Guard(ApiResult(env, "getSwapchainImagesKHR"))
      THEN Out("getSwapchainImagesKHR", [made EXCEPT !.SwapchainImages = <<>>],
               {"getSwapchainImagesKHR"})
      ELSE Out("eSuccess",
               [made EXCEPT !.SwapchainImages = [i \in 1..env.images |-> g],
                            !.SwapchainImageFormat = g,
                            !.SwapchainExtent = g], {})

createImageViews(e, env) ==
  LET n == Len(e.SwapchainImages)
      resized == VectorResize(e.SwapchainImageViews, n)
  IN  IF n > 0 /\ Guard(ApiResult(env, "createImageViewUnique"))
      THEN Out("createImageViewUnique",
               [e EXCEPT !.SwapchainImageViews = [resized EXCEPT ![1] = 0]],
               {"createImageViewUnique"})
      ELSE Out("eSuccess",
               [Assigned(e, "ImageView", \E i \in 1..n : resized[i] # 0)
                  EXCEPT !.SwapchainImageViews =
                           [i \in 1..n |-> e.SwapchainImages[i]]], {})

createRenderPass(e, env) ==
  IF Guard(ApiResult(env, "createRenderPassUnique"))
  THEN Out("createRenderPassUnique", [e EXCEPT !.RenderPass = 0],
           {"createRenderPassUnique"})
  ELSE Out("eSuccess", [Assigned(e, "RenderPass", e.RenderPass # 0)
                          EXCEPT !.RenderPass = e.Generation], {})

createDescriptorSetLayout(e, env) ==
  Out("eSuccess",
      [e EXCEPT !.DescriptorSetLayout =
         ~Guard(ApiResult(env, "createDescriptorSetLayoutUnique"))],
      Failing(env, {"createDescriptorSetLayoutUnique"}))

createGraphicsPipelineLayout(e, env) ==
  IF Guard(ApiResult(env, "createPipelineLayoutUnique"))
  THEN Out("createPipelineLayoutUnique", [e EXCEPT !.PipelineLayout = FALSE],
           {"createPipelineLayoutUnique"})
  ELSE Out("eSuccess", [e EXCEPT !.PipelineLayout = TRUE], {})

createGraphicsPipelines(e, env) ==
  IF Guard(ApiResult(env, "createGraphicsPipeline:Normal"))
  THEN Out("createGraphicsPipeline:Normal",
           [e EXCEPT !.GraphicsPipelines = <<0, 0>>, !.PipelineViewports = <<0, 0>>],
           {"createGraphicsPipeline:Normal"})
  ELSE IF Guard(ApiResult(env, "createGraphicsPipeline:Wireframe"))
  THEN Out("createGraphicsPipeline:Wireframe",
           [e EXCEPT !.GraphicsPipelines = <<e.Generation, 0>>,
                     !.PipelineViewports = <<e.SwapchainExtent, 0>>],
           {"createGraphicsPipeline:Wireframe"})
  ELSE Out("eSuccess",
           [e EXCEPT !.GraphicsPipelines = <<e.Generation, e.Generation>>,
                     !.PipelineViewports = <<e.SwapchainExtent, e.SwapchainExtent>>],
           {})

createFramebuffers(e, env) ==
  LET n == Len(e.SwapchainImageViews)
      resized == VectorResize(e.SwapchainFramebuffers, n)
  IN  IF n > 0 /\ Guard(ApiResult(env, "createFramebufferUnique"))
      THEN Out("createFramebufferUnique",
               [e EXCEPT !.SwapchainFramebuffers = [resized EXCEPT ![1] = 0],
                         !.FramebufferExtents =
                            [VectorResize(e.FramebufferExtents, n) EXCEPT ![1] = 0]],
               {"createFramebufferUnique"})
      ELSE Out("eSuccess",
               [Assigned(e, "Framebuffer", \E i \in 1..n : resized[i] # 0)
                  EXCEPT !.SwapchainFramebuffers = [i \in 1..n |-> e.Generation],
                         !.FramebufferExtents = [i \in 1..n |-> e.SwapchainExtent]],
               {})

createCommandPool(e, env) ==
  LET query == Failing(env, {"createCommandPool:getSurfaceSupportKHR"})
  IN  IF Guard(ApiResult(env, "createCommandPoolUnique"))
      THEN Out("createCommandPoolUnique", [e EXCEPT !.CommandPool = FALSE],
               query \cup {"createCommandPoolUnique"})
      ELSE Out("eSuccess", [e EXCEPT !.CommandPool = TRUE], query)

createVertexBuffer(e, env) ==
  Out("eSuccess",
      [e EXCEPT !.VertexBuffer =
         ~Guard(ApiResult(env, "createVertexBuffer:createBuffer"))],
      Failing(env, {"createVertexBuffer:createStagingBuffer",
                    "createVertexBuffer:createBuffer",
                    "createVertexBuffer:copyBuffer"}))

createIndexBuffer(e, env) ==
  Out("eSuccess",
      [e EXCEPT !.IndexBuffer =
         ~Guard(ApiResult(env, "createIndexBuffer:createBuffer"))],
      Failing(env, {"createIndexBuffer:createStagingBuffer",
                    "createIndexBuffer:createBuffer",
                    "createIndexBuffer:copyBuffer"}))

createUniformBuffer(e, env) ==
  Out("eSuccess",
      [e EXCEPT !.UniformBuffer =
         ~Guard(ApiResult(env, "createUniformBuffer:createBuffer"))],
      Failing(env, {"createUniformBuffer:createBuffer"}))

createDescriptorPool(e, env) ==
  IF Guard(ApiResult(env, "createDescriptorPoolUnique"))
  THEN Out("createDescriptorPoolUnique", [e EXCEPT !.DescriptorPool = FALSE],
           {"createDescriptorPoolUnique"})
  ELSE Out("eSuccess", [e EXCEPT !.DescriptorPool = TRUE], {})

createDescriptorSet(e, env) ==
  IF Guard(ApiResult(env, "allocateDescriptorSets"))
  THEN Out("allocateDescriptorSets", [e EXCEPT !.DescriptorSets = FALSE],
           {"allocateDescriptorSets"})
  ELSE Out("eSuccess", [e EXCEPT !.DescriptorSets = TRUE], {})

createCommandBuffers(e, env) ==
  LET n == Len(e.SwapchainFramebuffers)
  IN  IF Guard(ApiResult(env, "allocateCommandBuffers"))
      THEN Out("allocateCommandBuffers", e, {"allocateCommandBuffers"})
      ELSE IF n > 0 /\ Guard(ApiResult(env, "CommandBuffer:begin"))
      THEN Out("CommandBuffer:begin",
               [Assigned(e, "CommandBuffer", n > 0 /\ e.CommandBuffers # <<>>)
                  EXCEPT !.CommandBuffers = [i \in 1..n |-> Unrecorded]],
               {"CommandBuffer:begin"})
      ELSE Out("eSuccess",
               [Assigned(e, "CommandBuffer", n > 0 /\ e.CommandBuffers # <<>>)
                  EXCEPT !.CommandBuffers =
                  [i \in 1..n |->
                     [renderPass |-> e.RenderPass,
                      framebuffer |-> e.SwapchainFramebuffers[i],
                      pipeline |-> e.GraphicsPipelines[e.ActivePipeline],
                      variant |-> e.ActivePipeline,
                      renderArea |-> e.SwapchainExtent]]], {})

createSyncObjects(e, env) ==
  IF Guard(ApiResult(env, "createSyncObjects"))
  THEN Out("createSyncObjects", [e EXCEPT !.SyncObjects = FALSE],
           {"createSyncObjects"})
  ELSE Out("eSuccess", [e EXCEPT !.SyncObjects = TRUE], {})

-----------------------------------------------------------------------------
(* Composition of fallible steps. *)

Start(e) == [Result |-> "eSuccess", e |-> e, calls |-> <<>>, failed |-> {}]

\* The creation function called `name`.
Create(name, e, env, Devs) ==
  CASE name = "createInstance" -> createInstance(e, env)
    [] name = "createSurface" -> createSurface(e, env)
    [] name = "installDebugCallback" -> installDebugCallback(e, env)
    [] name = "createPhysicalDevice" -> createPhysicalDevice(e, env, Devs)
    [] name = "createLogicalDevice" -> createLogicalDevice(e, env)
    [] name = "createSwapchain" -> createSwapchain(e, env)
    [] name = "createImageViews" -> createImageViews(e, env)
    [] name = "createRenderPass" -> createRenderPass(e, env)
    [] name = "createDescriptorSetLayout" -> createDescriptorSetLayout(e, env)
    [] name = "createGraphicsPipelineLayout" -> createGraphicsPipelineLayout(e, env)
    [] name = "createGraphicsPipelines" -> createGraphicsPipelines(e, env)
    [] name = "createFramebuffers" -> createFramebuffers(e, env)
    [] name = "createCommandPool" -> createCommandPool(e, env)
    [] name = "createVertexBuffer" -> createVertexBuffer(e, env)
    [] name = "createIndexBuffer" -> createIndexBuffer(e, env)
    [] name = "createUniformBuffer" -> createUniformBuffer(e, env)
    [] name = "createDescriptorPool" -> createDescriptorPool(e, env)
    [] name = "createDescriptorSet" -> createDescriptorSet(e, env)
    [] name = "createCommandBuffers" -> createCommandBuffers(e, env)
    [] name = "createSyncObjects" -> createSyncObjects(e, env)

\* "Result = step(); VKMOL_GUARD(Result);" for each of Steps from the I-th
\* on, after the steps that gave `out`.
Then(out, name, o) ==
  [Result |-> o.Result, e |-> o.e,
   calls |-> Append(out.calls, [op |-> name, res |-> o.Result]),
   failed |-> out.failed \cup o.failed]

RECURSIVE Compose(_, _, _, _, _)
Compose(Steps, I, out, env, Devs) ==
  IF I > Len(Steps) \/ Guard(out.Result) THEN out
  ELSE Compose(Steps, I + 1,
               Then(out, Steps[I], Create(Steps[I], out.e, env, Devs)), env, Devs)

InitializeSteps ==
  <<"createInstance", "createSurface", "installDebugCallback",
    "createPhysicalDevice", "createLogicalDevice", "createSwapchain",
    "createImageViews", "createRenderPass", "createDescriptorSetLayout",
    "createGraphicsPipelineLayout", "createGraphicsPipelines",
    "createFramebuffers", "createCommandPool", "createVertexBuffer",
    "createIndexBuffer", "createUniformBuffer", "createDescriptorPool",
    "createDescriptorSet", "createCommandBuffers", "createSyncObjects">>

initialize(e, env, Devs) == Compose(InitializeSteps, 1, Start(e), env, Devs)

RecreateSteps ==
  <<"createSwapchain", "createImageViews", "createRenderPass",
    "createGraphicsPipelines", "createFramebuffers", "createCommandBuffers">>

\* A recreateSwapchain that also puts the pipeline selection back to Normal.
recreateSwapchain_ResetsSelection(e, env) ==
  LET out == Compose(RecreateSteps, 1,
                     Start([e EXCEPT !.Overlap = {}, !.ActivePipeline = Normal]),
                     env, <<>>)
  IN  [Result |-> out.Result, e |-> out.e,
       calls |-> <<[op |-> "waitIdle", res |-> ApiResult(env, "waitIdle")]>> \o out.calls,
       failed |-> Failing(env, {"waitIdle"}) \cup out.failed]

recreateSwapchain(e, env) ==
  LET out == Compose(RecreateSteps, 1, Start([e EXCEPT !.Overlap = {}]), env, <<>>)
  IN  [Result |-> out.Result, e |-> out.e,
       calls |-> <<[op |-> "waitIdle", res |-> ApiResult(env, "waitIdle")]>> \o out.calls,
       failed |-> Failing(env, {"waitIdle"}) \cup out.failed]

-----------------------------------------------------------------------------
(* The environments an operation may run in. *)

ProbeSites ==
  {"enumeratePhysicalDevices", "scoreDevice:getSurfaceSupportKHR",
   "enumerateDeviceExtensionProperties", "scoreDevice:querySwapchainSupport"}

RecreateSites ==
  {"waitIdle", "createSwapchain:querySwapchainSupport",
   "createSwapchain:getSurfaceSupportKHR", "createSwapchainKHRUnique",
   "getSwapchainImagesKHR", "createImageViewUnique", "createRenderPassUnique",
   "createGraphicsPipeline:Normal", "createGraphicsPipeline:Wireframe",
   "createFramebufferUnique", "allocateCommandBuffers", "CommandBuffer:begin"}

InitSites ==
  ProbeSites \cup (RecreateSites \ {"waitIdle"}) \cup
  {"createInstanceUnique", "SurfaceFactory", "createDebugReportCallbackEXTUnique",
   "createLogicalDevice:getSurfaceSupportKHR", "createDeviceUnique",
   "createDescriptorSetLayoutUnique", "createPipelineLayoutUnique",
   "createCommandPool:getSurfaceSupportKHR", "createCommandPoolUnique",
   "createVertexBuffer:createStagingBuffer", "createVertexBuffer:createBuffer",
   "createVertexBuffer:copyBuffer", "createIndexBuffer:createStagingBuffer",
   "createIndexBuffer:createBuffer", "createIndexBuffer:copyBuffer",
   "createUniformBuffer:createBuffer", "createDescriptorPoolUnique",
   "allocateDescriptorSets", "createSyncObjects"}

RECURSIVE SubsetsUpTo(_, _)
SubsetsUpTo(S, k) ==
  IF k = 0 THEN {{}}
  ELSE LET P == SubsetsUpTo(S, k - 1) IN P \cup {q \cup {s} : q \in P, s \in S}

Envs(Sites, k) == [fail : SubsetsUpTo(Sites, k), images : 1..MaxImages]

RECURSIVE SeqsUpTo(_, _)
SeqsUpTo(S, n) ==
  IF n = 0 THEN {<<>>}
  ELSE LET P == SeqsUpTo(S, n - 1) IN P \cup {Append(q, s) : q \in P, s \in S}

\* A device that meets every viability predicate.
DiscreteDevice ==
  [queueFamiliesComplete |-> TRUE, extensionsSupported |-> TRUE,
   hasFormats |-> TRUE, hasPresentModes |-> TRUE, fillModeNonSolid |-> TRUE,
   deviceType |-> "eDiscreteGpu"]

-----------------------------------------------------------------------------
(* The state after construction. *)

NoCommandBuffer ==
  [renderPass |-> -1, framebuffer |-> -1, pipeline |-> -1, variant |-> -1,
   renderArea |-> -1]

\* No semaphore and no fence has been handed to a call yet; -1 is no slot.
NoSync ==
  [acquire |-> -1, WaitSemaphores |-> -1, SignalSemaphores |-> -1, fence |-> -1,
   present |-> -1]

Constructed ==
  /\ E = EngineConstructed
  /\ CurrentFrame = 0
  /\ pc = "constructed"
  /\ ret = "none"
  /\ calls = <<>>
  /\ fenceSignaled = [i \in Slots |-> FALSE]
  /\ inFlight = [i \in Slots |-> 0]
  /\ ImageIndex = 0
  /\ Submitted = NoCommandBuffer
  /\ uboRace = FALSE
  /\ Candidates = <<>>
  /\ faults = 0
  /\ Sync = NoSync

\* No selection helper is being called on its own.
NotCalled == [fn |-> "none"]

Init == Devices = <<DiscreteDevice>> /\ Constructed /\ args = NotCalled /\ result = NotCalled

InitSelect ==
  /\ Devices \in SeqsUpTo(PhysicalDevices, MaxDevices)
  /\ Constructed /\ args = NotCalled /\ result = NotCalled

-----------------------------------------------------------------------------
(* Operations. *)

\* Engine::initialize in environment env; the caller goes on to the frame
\* loop only when it returns eSuccess.
Initialize(env) ==
  /\ pc = "constructed"
  /\ \E out \in {initialize(E, env, Devices)} :
       /\ E' = out.e
       /\ ret' = out.Result
       /\ calls' = out.calls
       /\ pc' = IF Guard(out.Result) THEN "failed" ELSE "ready"
       /\ fenceSignaled' = [i \in Slots |-> out.e.SyncObjects]
       /\ Candidates' =
            IF /\ \E i \in 1..Len(out.calls) : out.calls[i].op = "createPhysicalDevice"
               /\ "enumeratePhysicalDevices" \notin env.fail
            THEN ScoreDevices(Devices, 1, env, <<>>).Candidates
            ELSE <<>>
       /\ faults' = faults + Cardinality(out.failed)
  /\ UNCHANGED <<Sync, args, result, Devices, CurrentFrame, inFlight, ImageIndex, Submitted, uboRace>>

\* Device->waitIdle(): when it succeeds every submission has completed and
\* has signaled its fence.
WaitIdle(ok) ==
  /\ inFlight' = IF ok THEN [i \in Slots |-> 0] ELSE inFlight
  /\ fenceSignaled' = IF ok THEN [i \in Slots |-> fenceSignaled[i] \/ inFlight[i] > 0]
                      ELSE fenceSignaled

\* drawFrame returns Result: its locals (and the record of what it
\* submitted and of whether its uniform-buffer write raced) are gone.
Return(Result) ==
  /\ pc' = "ready"
  /\ ret' = Result
  /\ ImageIndex' = 0
  /\ Submitted' = NoCommandBuffer
  /\ uboRace' = FALSE

\* drawFrame goes on to the step at `next`.
Goto(next) ==
  /\ pc' = next
  /\ UNCHANGED <<ret, Submitted, uboRace>>

\* The running operation called op, which reported res; an error (a result
\* that is neither success nor a stale-swapchain status) is one more fault.
Did(op, res) ==
  /\ calls' = Append(calls, [op |-> op, res |-> res])
  /\ IF Guard(res) /\ res \notin Stale
     THEN faults < MaxFaults /\ faults' = faults + 1
     ELSE UNCHANGED faults

updateUniformBuffer ==
  uboRace' = (\E i \in Slots : inFlight[i] > 0)

DrawFrameBegin ==
  /\ pc = "ready"
  /\ updateUniformBuffer
  /\ calls' = <<[op |-> "updateUniformBuffer", res |-> "void"]>>
  /\ pc' = "waitForFences"
  /\ ret' = "none"
  /\ ImageIndex' = 0
  /\ Submitted' = NoCommandBuffer
  /\ Sync' = NoSync
  /\ UNCHANGED <<args, result, Devices, E, CurrentFrame, fenceSignaled, inFlight, Candidates, faults>>

\* drawFrame without the wait on the slot's fence.
DrawFrameWaitForFences_NoWait ==
  /\ pc = "waitForFences"
  /\ Did("waitForFences", "eSuccess")
  /\ Goto("resetFences")
  /\ UNCHANGED <<Sync, args, result, Devices, E, CurrentFrame, fenceSignaled, inFlight, ImageIndex,
                 Candidates>>

\* Device->waitForFences with an unbounded timeout: it returns eSuccess only
\* once the slot's fence is signaled.
DrawFrameWaitForFences ==
  /\ pc = "waitForFences"
  /\ \E Result \in {"eSuccess", "eErrorDeviceLost"} :
       /\ Result = "eSuccess" => fenceSignaled[CurrentFrame]
       /\ Did("waitForFences", Result)
       /\ IF Guard(Result) THEN Return(Result)
          ELSE Goto("resetFences") /\ UNCHANGED ImageIndex
  /\ UNCHANGED <<Sync, args, result, Devices, E, CurrentFrame, fenceSignaled, inFlight, Candidates>>

DrawFrameResetFences ==
  /\ pc = "resetFences"
  /\ \E Result \in {"eSuccess", "eErrorOutOfDeviceMemory"} :
       /\ Did("resetFences", Result)
       /\ IF Guard(Result)
          THEN Return(Result) /\ UNCHANGED fenceSignaled
          ELSE /\ fenceSignaled' = [fenceSignaled EXCEPT ![CurrentFrame] = FALSE]
               /\ Goto("acquire")
               /\ UNCHANGED ImageIndex
  /\ UNCHANGED <<Sync, args, result, Devices, E, CurrentFrame, inFlight, Candidates>>

\* The image indices acquireNextImageKHR can report.
ImageIndices ==
  IF E.Swapchain # 0 /\ E.SwapchainImages # <<>>
  THEN 1..Len(E.SwapchainImages)
  ELSE 1..MaxImages

\* "if (Result is out-of-date or suboptimal) recreateSwapchain();
\*  VKMOL_GUARD(Result);" after acquireNextImageKHR or presentKHR gave a
\* stale Result.
HandleStale(op, Result) ==
  \E env \in Envs(RecreateSites, MaxFaults - faults) :
    \E out \in {recreateSwapchain(E, env)} :
        /\ E' = out.e
        /\ WaitIdle("waitIdle" \notin env.fail)
        /\ calls' = calls \o <<[op |-> op, res |-> Result]>> \o out.calls \o
                       <<[op |-> "recreateSwapchain", res |-> out.Result]>>
        /\ faults' = faults + Cardinality(out.failed)
        /\ Return(Result)

\* acquireNextImageKHR gave an image: drawFrame goes on to the submission.
AcquireImage(Result) ==
  /\ Did("acquireNextImageKHR", Result)
  /\ ImageIndex' \in ImageIndices
  /\ Sync' = [Sync EXCEPT !.acquire = CurrentFrame]
  /\ Goto("submit")
  /\ UNCHANGED <<E, fenceSignaled, inFlight>>

\* A drawFrame that goes on to submit after the recreation that follows a
\* stale acquire.
DrawFrameAcquire_SubmitAfterRecreate ==
  /\ pc = "acquire"
  /\ \E Result \in {"eSuccess", "eSuboptimalKHR", "eErrorOutOfDateKHR",
                    "eErrorDeviceLost"} :
       IF Result \in Stale
       THEN /\ E.Generation < MaxGeneration
            /\ \E env \in Envs(RecreateSites, MaxFaults - faults) :
                 \E out \in {recreateSwapchain(E, env)} :
                   /\ E' = out.e
                   /\ WaitIdle("waitIdle" \notin env.fail)
                   /\ calls' = calls \o <<[op |-> "acquireNextImageKHR", res |-> Result]>>
                                  \o out.calls
                                  \o <<[op |-> "recreateSwapchain", res |-> out.Result]>>
                   /\ faults' = faults + Cardinality(out.failed)
            /\ ImageIndex' = 1
            /\ Goto("submit")
            /\ Sync' = [Sync EXCEPT !.acquire = CurrentFrame]
       ELSE IF Guard(Result)
       THEN /\ Did("acquireNextImageKHR", Result)
            /\ Return(Result)
            /\ UNCHANGED <<E, fenceSignaled, inFlight, Sync>>
       ELSE AcquireImage(Result)
  /\ UNCHANGED <<args, result, Devices, CurrentFrame, Candidates>>

DrawFrameAcquire ==
  /\ pc = "acquire"
  /\ \E Result \in {"eSuccess", "eSuboptimalKHR", "eErrorOutOfDateKHR",
                    "eErrorDeviceLost"} :
       IF Result \in Stale
       THEN /\ E.Generation < MaxGeneration
            /\ HandleStale("acquireNextImageKHR", Result)
            /\ Sync' = IF Result = "eSuboptimalKHR"
                       THEN [Sync EXCEPT !.acquire = CurrentFrame]
                       ELSE Sync
       ELSE IF Guard(Result)
       THEN /\ Did("acquireNextImageKHR", Result)
            /\ Return(Result)
            /\ UNCHANGED <<E, fenceSignaled, inFlight, Sync>>
       ELSE AcquireImage(Result)
  /\ UNCHANGED <<args, result, Devices, CurrentFrame, Candidates>>

\* What a read of CommandBuffers[ImageIndex] beyond the vector's size can give.
DanglingCommandBuffers ==
  {Unrecorded} \cup
  {[renderPass |-> g, framebuffer |-> g, pipeline |-> g, variant |-> v,
    renderArea |-> g] :
     g \in 1..E.Generation, v \in {Normal, Wireframe}}

\* drawFrame going on to present whatever GraphicsQueue.submit reported.
DrawFrameSubmit_Unguarded ==
  /\ pc = "submit"
  /\ \E Result \in {"eSuccess", "eErrorDeviceLost"} :
       /\ Did("submit", Result)
       /\ Submitted' \in IF ImageIndex \in DOMAIN E.CommandBuffers
                         THEN {E.CommandBuffers[ImageIndex]}
                         ELSE DanglingCommandBuffers
       /\ inFlight' = [inFlight EXCEPT ![CurrentFrame] = @ + 1]
       /\ Sync' = [Sync EXCEPT !.WaitSemaphores = CurrentFrame,
                                !.SignalSemaphores = CurrentFrame,
                                !.fence = CurrentFrame]
       /\ pc' = "present"
       /\ UNCHANGED <<ret, uboRace, ImageIndex>>
  /\ UNCHANGED <<args, result, Devices, E, CurrentFrame, fenceSignaled, Candidates>>

DrawFrameSubmit ==
  /\ pc = "submit"
  /\ \E Result \in {"eSuccess", "eErrorDeviceLost"} :
       /\ Did("submit", Result)
       /\ IF Guard(Result)
          THEN Return(Result) /\ UNCHANGED <<inFlight, Sync>>
          ELSE /\ Submitted' \in IF ImageIndex \in DOMAIN E.CommandBuffers
                                 THEN {E.CommandBuffers[ImageIndex]}
                                 ELSE DanglingCommandBuffers
               /\ inFlight' = [inFlight EXCEPT ![CurrentFrame] = @ + 1]
               /\ Sync' = [Sync EXCEPT !.WaitSemaphores = CurrentFrame,
                                        !.SignalSemaphores = CurrentFrame,
                                        !.fence = CurrentFrame]
               /\ pc' = "present"
               /\ UNCHANGED <<ret, uboRace, ImageIndex>>
  /\ UNCHANGED <<args, result, Devices, E, CurrentFrame, fenceSignaled, Candidates>>

\* drawFrame advancing the cursor before it looks at what presentKHR reported.
DrawFramePresent_AdvanceFirst ==
  /\ pc = "present"
  /\ \E Result \in {"eSuccess", "eSuboptimalKHR", "eErrorOutOfDateKHR",
                    "eErrorDeviceLost"} :
       /\ CurrentFrame' = (CurrentFrame + 1) % MaxFramesInFlight
       /\ Sync' = [Sync EXCEPT !.present = CurrentFrame]
       /\ IF Result \in Stale
          THEN /\ E.Generation < MaxGeneration
               /\ HandleStale("presentKHR", Result)
          ELSE IF Guard(Result)
          THEN /\ Did("presentKHR", Result)
               /\ Return(Result)
               /\ UNCHANGED <<E, fenceSignaled, inFlight>>
          ELSE /\ calls' = calls \o <<[op |-> "presentKHR", res |-> Result],
                                      [op |-> "advance", res |-> "void"]>>
               /\ Return("eSuccess")
               /\ UNCHANGED <<E, fenceSignaled, inFlight, faults>>
  /\ UNCHANGED <<args, result, Devices, Candidates>>

\* presentKHR succeeded: the cursor advances and drawFrame returns eSuccess.
PresentAdvance(Result) ==
  /\ calls' = calls \o <<[op |-> "presentKHR", res |-> Result],
                         [op |-> "advance", res |-> "void"]>>
  /\ CurrentFrame' = (CurrentFrame + 1) % MaxFramesInFlight
  /\ Return("eSuccess")
  /\ UNCHANGED <<E, fenceSignaled, inFlight, faults>>

DrawFramePresent ==
  /\ pc = "present"
  /\ Sync' = [Sync EXCEPT !.present = CurrentFrame]
  /\ \E Result \in {"eSuccess", "eSuboptimalKHR", "eErrorOutOfDateKHR",
                    "eErrorDeviceLost"} :
       IF Result \in Stale
       THEN /\ E.Generation < MaxGeneration
            /\ HandleStale("presentKHR", Result)
            /\ UNCHANGED CurrentFrame
       ELSE IF Guard(Result)
       THEN /\ Did("presentKHR", Result)
            /\ Return(Result)
            /\ UNCHANGED <<E, CurrentFrame, fenceSignaled, inFlight>>
       ELSE PresentAdvance(Result)
  /\ UNCHANGED <<args, result, Devices, Candidates>>

\* The GPU completes a submission, which signals the fence it was given.
GpuComplete ==
  \E i \in Slots :
    /\ inFlight[i] > 0
    /\ inFlight' = [inFlight EXCEPT ![i] = @ - 1]
    /\ fenceSignaled' = [fenceSignaled EXCEPT ![i] = TRUE]
    /\ UNCHANGED <<Sync, args, result, Devices, E, CurrentFrame, pc, ret, calls, ImageIndex, Submitted,
                   uboRace, Candidates, faults>>

\* Engine::resize, called between frames.
Resize ==
  /\ pc = "ready"
  /\ E.Generation < MaxGeneration
  /\ \E env \in Envs(RecreateSites, MaxFaults - faults) :
       \E out \in {recreateSwapchain(E, env)} :
           /\ E' = out.e
           /\ WaitIdle("waitIdle" \notin env.fail)
           /\ calls' = Append(out.calls, [op |-> "recreateSwapchain", res |-> out.Result])
           /\ ret' = out.Result
           /\ faults' = faults + Cardinality(out.failed)
  /\ ImageIndex' = 0
  /\ Submitted' = NoCommandBuffer
  /\ uboRace' = FALSE
  /\ Sync' = NoSync
  /\ UNCHANGED <<args, result, Devices, CurrentFrame, pc, Candidates>>

\* Engine::setActivePipeline, called between frames (it creates no swapchain,
\* so the image count the environment would report plays no part).
SetActivePipeline ==
  /\ pc = "ready"
  /\ \E Index \in {Normal, Wireframe} :
     \E env \in [fail : SubsetsUpTo({"waitIdle", "allocateCommandBuffers",
                                      "CommandBuffer:begin"}, MaxFaults - faults),
                  images : {1}] :
       \E out \in {createCommandBuffers([E EXCEPT !.ActivePipeline = Index,
                                                   !.Overlap = {}], env)} :
           /\ E' = out.e
           /\ WaitIdle("waitIdle" \notin env.fail)
           /\ calls' = <<[op |-> "waitIdle", res |-> ApiResult(env, "waitIdle")],
                         [op |-> "createCommandBuffers", res |-> out.Result]>>
           /\ ret' = "void"
           /\ faults' = faults + Cardinality(out.failed \cup Failing(env, {"waitIdle"}))
  /\ ImageIndex' = 0
  /\ Submitted' = NoCommandBuffer
  /\ uboRace' = FALSE
  /\ Sync' = NoSync
  /\ UNCHANGED <<args, result, Devices, CurrentFrame, pc, Candidates>>

-----------------------------------------------------------------------------
(* Specifications. *)

InitializeEngine == \E env \in Envs(InitSites, MaxFaults) : Initialize(env)

Next ==
  \/ InitializeEngine
  \/ DrawFrameBegin
  \/ DrawFrameWaitForFences
  \/ DrawFrameResetFences
  \/ DrawFrameAcquire
  \/ DrawFrameSubmit
  \/ DrawFramePresent
  \/ GpuComplete
  \/ Resize
  \/ SetActivePipeline

Spec == Init /\ [][Next]_vars

\* Device selection over every enumerated device list: initialize where only
\* the probes of createPhysicalDevice can fail.
SelectDevice ==
  \E env \in [fail : SubsetsUpTo(ProbeSites, MaxFaults), images : {1}] : Initialize(env)

SpecSelect == InitSelect /\ [][SelectDevice]_vars

-----------------------------------------------------------------------------
(* Properties of the frame loop (specification Spec). *)

\* The positions in calls of the calls to one of ops.
CallsOf(ops) == {i \in 1..Len(calls) : calls[i].op \in ops}

\* calls is the record of a drawFrame call.
InDrawFrame == calls # <<>> /\ calls[1].op = "updateUniformBuffer"

\* C1: no slot ever has two submissions in flight, and between the completed
\* wait on the slot's fence and the submission on that slot no earlier
\* submission on the slot is outstanding.
FrameSlotInvariant ==
  /\ \A i \in Slots : inFlight[i] <= 1
  /\ pc \in {"resetFences", "acquire", "submit"} => inFlight[CurrentFrame] = 0
  /\ pc = "present" =>
       \E w \in CallsOf({"waitForFences"}), s \in CallsOf({"submit"}) :
         w < s /\ calls[w].res = "eSuccess"

\* C1 witness: slot 0 has been submitted on again (frame N+2) while the
\* frame submitted on slot 1 in between (frame N+1) is still in flight.
FrameSlotReused ==
  /\ pc = "present" /\ CurrentFrame = 0
  /\ inFlight[0] = 1 /\ inFlight[1] = 1

\* C2: after a drawFrame that acquireNextImageKHR ended with out-of-date,
\* the slot's fence is signaled or has a pending submission that will signal
\* it, so that the next drawFrame passes its waitForFences.
AbandonedFrameRestarts ==
  (/\ pc = "ready" /\ InDrawFrame
   /\ \E i \in CallsOf({"acquireNextImageKHR"}) : calls[i].res = "eErrorOutOfDateKHR")
  => fenceSignaled[CurrentFrame] \/ inFlight[CurrentFrame] > 0

\* C3: a drawFrame in which acquireNextImageKHR or presentKHR reported a
\* stale swapchain has invoked recreateSwapchain and does not return the
\* staleness code.
StaleHandledLocally ==
  (/\ pc = "ready" /\ InDrawFrame
   /\ \E i \in CallsOf({"acquireNextImageKHR", "presentKHR"}) : calls[i].res \in Stale)
  => CallsOf({"recreateSwapchain"}) # {} /\ ret \notin Stale

\* C4: a submitted command buffer references no render pass, framebuffer
\* or pipeline of a generation before the latest.
NoPriorGenerationSubmitted ==
  (pc = "present" /\ ImageIndex \in DOMAIN E.CommandBuffers)
  => \A f \in {"renderPass", "framebuffer", "pipeline"} :
       Submitted[f] \notin 1..(E.Generation - 1)

\* C8: updateUniformBuffer does not write the uniform buffer while a
\* submitted frame is in flight.
UniformBufferNotWrittenInFlight == ~uboRace

\* C9: an error other than out-of-date/suboptimal from waitForFences,
\* resetFences, acquireNextImageKHR, submit or presentKHR is the last thing
\* drawFrame does, and drawFrame returns it.
FrameCalls == {"waitForFences", "resetFences", "acquireNextImageKHR", "submit", "presentKHR"}

ErrorEndsDrawFrame ==
  InDrawFrame =>
    \A i \in CallsOf(FrameCalls) :
      (Guard(calls[i].res) /\ calls[i].res \notin Stale)
      => i = Len(calls) /\ pc = "ready" /\ ret = calls[i].res

\* C9 witness: drawFrame returned the error GraphicsQueue.submit reported.
SubmitErrorReturned ==
  /\ pc = "ready" /\ InDrawFrame
  /\ calls[Len(calls)] = [op |-> "submit", res |-> "eErrorDeviceLost"]
  /\ ret = "eErrorDeviceLost"

\* C10: initialize returns eSuccess only if every fallible call made within
\* it succeeded.
InitializeSuccessMeansNoFailure ==
  (pc = "ready" /\ calls # <<>> /\ calls[1].op = "createInstance") => faults = 0

-----------------------------------------------------------------------------
(* Properties of device selection (specification SpecSelect). *)

\* The viability predicates of a device.
Viable(Device) == \A c \in Capabilities : Device[c]

\* createPhysicalDevice ran with every probe succeeding.
Selected ==
  /\ pc # "constructed" /\ faults = 0
  /\ CallsOf({"createPhysicalDevice"}) # {}

\* C5: on a list of devices none of which is viable createPhysicalDevice
\* reports eErrorInitializationFailed and createLogicalDevice is not called.
NoViableDeviceFails ==
  (Selected /\ \A i \in 1..Len(Devices) : ~Viable(Devices[i]))
  => /\ \A i \in CallsOf({"createPhysicalDevice"}) :
          calls[i].res = "eErrorInitializationFailed"
     /\ CallsOf({"createLogicalDevice"}) = {}

\* C6: on a list with a viable device createPhysicalDevice selects a viable
\* device whose score is the greatest of the candidates' scores.
SelectsBestViable ==
  (Selected /\ \E i \in 1..Len(Devices) : Viable(Devices[i]))
  => /\ E.PhysicalDevice \in 1..Len(Devices)
     /\ Viable(Devices[E.PhysicalDevice])
     /\ \E c \in 1..Len(Candidates) :
          /\ Candidates[c].Device = E.PhysicalDevice
          /\ \A d \in 1..Len(Candidates) : Candidates[d].Score <= Candidates[c].Score

\* C7: scoreDevice gives 0 to a device that is not viable, and to a viable
\* device 1 plus 1000 (discrete GPU), plus 100 (integrated GPU) or plus 0.
ScoreAsSpecified ==
  \A c \in 1..Len(Candidates) :
    LET Device == Devices[Candidates[c].Device]
    IN  Candidates[c].Score =
          IF ~Viable(Device) THEN 0
          ELSE 1 + (CASE Device.deviceType = "eDiscreteGpu" -> 1000
                      [] Device.deviceType = "eIntegratedGpu" -> 100
                      [] OTHER -> 0)

\* C11: a failure of recreateSwapchain, of createCommandBuffers or of the
\* Device->waitIdle before them is what the enclosing operation returns.
NoSwallowedError ==
  pc = "ready" =>
    \A i \in CallsOf({"recreateSwapchain", "createCommandBuffers", "waitIdle"}) :
      Guard(calls[i].res) => ret = calls[i].res

\* The swapchain-dependent objects of the engine.
Dependent(e) ==
  <<e.Swapchain, e.SwapchainImageViews, e.RenderPass, e.GraphicsPipelines,
    e.SwapchainFramebuffers, e.CommandBuffers>>

\* C12: a step that runs recreateSwapchain rebuilds, after its waitIdle, in
\* the order swapchain, image views, render pass, pipelines, framebuffers,
\* command buffers, and replaces a swapchain-dependent object only when no
\* submitted frame is in flight.
RebuildsInOrderWhenIdle ==
  [][(calls' # calls /\ calls' # <<>> /\ calls'[Len(calls')].op = "recreateSwapchain")
     => /\ \E w \in 1..Len(calls') :
             /\ calls'[w].op = "waitIdle"
             /\ \A k \in (w + 1)..(Len(calls') - 1) :
                  /\ k - w <= Len(RecreateSteps)
                  /\ calls'[k].op = RecreateSteps[k - w]
        /\ Dependent(E') # Dependent(E) => \A i \in Slots : inFlight'[i] = 0]_vars

\* C13: within an operation no new swapchain, image view, render pass,
\* pipeline, framebuffer or command buffer is constructed while the object
\* it replaces still exists.
OldReleasedBeforeNew == E.Overlap = {}

\* C14: whenever drawFrame is about to submit (on a swapchain that exists),
\* SwapchainExtent and SwapchainImageFormat are those of the current
\* swapchain, and every framebuffer size, pipeline viewport and recorded
\* render area is that SwapchainExtent.
ConsistentAtSubmit ==
  (pc = "submit" /\ E.Swapchain # 0) =>
    /\ E.SwapchainExtent = E.Swapchain
    /\ E.SwapchainImageFormat = E.Swapchain
    /\ \A i \in DOMAIN E.FramebufferExtents : E.FramebufferExtents[i] = E.SwapchainExtent
    /\ \A i \in DOMAIN E.PipelineViewports : E.PipelineViewports[i] = E.SwapchainExtent
    /\ \A i \in DOMAIN E.CommandBuffers : E.CommandBuffers[i].renderArea = E.SwapchainExtent

\* The step in which presentKHR reports success to drawFrame.
PresentSucceeds ==
  /\ pc = "present"
  /\ \E i \in 1..Len(calls') : calls'[i] = [op |-> "presentKHR", res |-> "eSuccess"]

\* C15: the cursor is a slot index; the step of a successful present
\* advances it by one modulo MaxFramesInFlight and no other step changes it.
CursorAdvancesOnPresent ==
  /\ [](CurrentFrame \in Slots)
  /\ [][IF PresentSucceeds
        THEN CurrentFrame' = (CurrentFrame + 1) % MaxFramesInFlight
        ELSE CurrentFrame' = CurrentFrame]_vars

\* C15 witness: a drawFrame on slot 0 presented and moved the cursor to
\* slot 1.
CursorAdvanced ==
  /\ pc = "ready" /\ InDrawFrame
  /\ calls[Len(calls)].op = "advance"
  /\ CurrentFrame = 1

\* The number of submissions in flight on slots i..MaxFramesInFlight-1.
RECURSIVE InFlightFrom(_)
InFlightFrom(i) ==
  IF i >= MaxFramesInFlight THEN 0 ELSE inFlight[i] + InFlightFrom(i + 1)

\* C16: the number of frames submitted and not yet completed never exceeds
\* MaxFramesInFlight.
InFlightBounded == InFlightFrom(0) <= MaxFramesInFlight

\* C16 witness: MaxFramesInFlight frames are in flight, the last of them
\* just submitted.
InFlightFull ==
  /\ pc = "present"
  /\ InFlightFrom(0) = MaxFramesInFlight

-----------------------------------------------------------------------------
(* Progress of the frame loop (specification SpecLive). *)

\* The GPU eventually completes what was submitted, a blocking call returns
\* once it can, and a running drawFrame goes on; no call is ever bound to fail.
Progress ==
  /\ WF_vars(GpuComplete)
  /\ WF_vars(DrawFrameWaitForFences /\ pc' = "resetFences")
  /\ WF_vars(DrawFrameResetFences /\ pc' = "acquire")
  /\ WF_vars(/\ pc = "acquire"
             /\ AcquireImage("eSuccess")
             /\ UNCHANGED <<args, result, Devices, CurrentFrame, Candidates>>)
  /\ WF_vars(DrawFrameSubmit)
  /\ WF_vars(/\ pc = "present"
             /\ PresentAdvance("eSuccess")
             /\ Sync' = [Sync EXCEPT !.present = CurrentFrame]
             /\ UNCHANGED <<args, result, Devices, Candidates>>)

SpecLive == Init /\ [][Next]_vars /\ Progress

\* C17: every drawFrame call terminates.
DrawFrameTerminates ==
  (pc \in {"waitForFences", "resetFences", "acquire", "submit", "present"})
    ~> (pc = "ready")

-----------------------------------------------------------------------------
(* The selection helpers, called on their own (specification SpecPure). *)

MaxMemoryTypes == 2
MaxFormats == 2
MaxModes == 2

\* a & b on unsigned integers.
RECURSIVE BitAnd(_, _)
BitAnd(a, b) ==
  IF a = 0 \/ b = 0 THEN 0
  ELSE (a % 2) * (b % 2) + 2 * BitAnd(a \div 2, b \div 2)

\* 1 << i; i stays below memoryTypeCount <= 32, so the shift does not overflow.
ShiftLeft(i) == 2 ^ i

MemoryPropertyFlagBits == {"eDeviceLocal", "eHostVisible"}

\* What PhysicalDevice.getMemoryProperties() can report.
MemoryProperties ==
  {[memoryTypeCount |-> Len(t), memoryTypes |-> t] :
     t \in SeqsUpTo([propertyFlags : SUBSET MemoryPropertyFlagBits], MaxMemoryTypes)}

\* The loop of queryMemoryType from index i on; memoryTypes is indexed from 0
\* in the code and from 1 here.
RECURSIVE queryMemoryTypeFrom(_, _, _, _)
queryMemoryTypeFrom(i, TypeFilter, Properties, MemProperties) ==
  IF i >= MemProperties.memoryTypeCount
  THEN [result |-> "eErrorOutOfDeviceMemory", value |-> 0]
  ELSE IF /\ BitAnd(TypeFilter, ShiftLeft(i)) # 0
          /\ (MemProperties.memoryTypes[i + 1].propertyFlags \cap Properties) = Properties
       THEN [result |-> "eSuccess", value |-> i]
       ELSE queryMemoryTypeFrom(i + 1, TypeFilter, Properties, MemProperties)

\* A queryMemoryType that returns the last fitting index instead of the first.
queryMemoryType_LastFit(TypeFilter, Properties, MemProperties) ==
  LET Fit == {i \in 0..(MemProperties.memoryTypeCount - 1) :
                queryMemoryTypeFrom(i, TypeFilter, Properties, MemProperties).value = i
                /\ queryMemoryTypeFrom(i, TypeFilter, Properties, MemProperties).result = "eSuccess"}
  IN  IF Fit = {} THEN [result |-> "eErrorOutOfDeviceMemory", value |-> 0]
      ELSE [result |-> "eSuccess", value |-> CHOOSE i \in Fit : \A j \in Fit : j <= i]

queryMemoryType(TypeFilter, Properties, MemProperties) ==
  queryMemoryTypeFrom(0, TypeFilter, Properties, MemProperties)

PreferredFormat == [format |-> "eB8G8R8A8Unorm", colorSpace |-> "eSrgbNonlinear"]

SurfaceFormats ==
  [format : {"eUndefined", "eB8G8R8A8Unorm", "eR8G8B8A8Unorm"},
   colorSpace : {"eSrgbNonlinear", "eExtendedSrgbLinearEXT"}]

\* "for (const auto &Format : Formats)" from position i on, then
\* "return Formats.front()".
RECURSIVE chooseSurfaceFormatFrom(_, _)
chooseSurfaceFormatFrom(i, Formats) ==
  IF i > Len(Formats) THEN Formats[1]
  ELSE IF Formats[i] = PreferredFormat THEN Formats[i]
  ELSE chooseSurfaceFormatFrom(i + 1, Formats)

\* A chooseSurfaceFormat that looks at the first element only.
chooseSurfaceFormat_FrontOnly(Formats) ==
  IF Len(Formats) = 1 /\ Formats[1].format = "eUndefined"
  THEN PreferredFormat
  ELSE Formats[1]

\* Formats is not empty: see ChooseSurfaceFormat for the empty list.
chooseSurfaceFormat(Formats) ==
  IF Len(Formats) = 1 /\ Formats[1].format = "eUndefined"
  THEN PreferredFormat
  ELSE chooseSurfaceFormatFrom(1, Formats)

PresentModes == {"eImmediate", "eMailbox", "eFifo", "eFifoRelaxed"}

\* The loop of choosePresentMode from position i on.
RECURSIVE choosePresentModeFrom(_, _, _)
choosePresentModeFrom(i, Modes, PreferredMode) ==
  IF i > Len(Modes) THEN PreferredMode
  ELSE IF Modes[i] = "eMailbox" THEN Modes[i]
  ELSE choosePresentModeFrom(i + 1, Modes, PreferredMode)

\* A choosePresentMode whose fallback is immediate when the list offers it
\* (the branch that is commented out in the code).
choosePresentMode_PreferImmediate(Modes) ==
  choosePresentModeFrom(1, Modes,
    IF \E i \in 1..Len(Modes) : Modes[i] = "eImmediate" THEN "eImmediate" ELSE "eFifo")

choosePresentMode(Modes) == choosePresentModeFrom(1, Modes, "eFifo")

UintBits == 3
MaxExtent == 1

\* std::numeric_limits<uint32_t>::max(), at the width of the model.
UINT32_MAX == 2 ^ UintBits - 1

\* static_cast<uint32_t>(x)
ToUint32(x) == x % (UINT32_MAX + 1)

Min(a, b) == IF b < a THEN b ELSE a
Max(a, b) == IF a < b THEN b ELSE a

Extents == [width : 0..MaxExtent, height : 0..MaxExtent]

\* currentExtent is a size or the special value (0xFFFFFFFF, 0xFFFFFFFF).
SurfaceCapabilities ==
  [currentExtent : Extents \cup {[width |-> UINT32_MAX, height |-> UINT32_MAX]},
   minImageExtent : Extents, maxImageExtent : Extents]

\* What the GetWindowSize callback can give: signed sizes.
WindowSizes == (-1..(MaxExtent + 1)) \X (-1..(MaxExtent + 1))

\* A chooseExtent that clamps the height into the bounds of the width.
chooseExtent_WidthBoundsForHeight(Caps, WindowSize) ==
  IF Caps.currentExtent.width # UINT32_MAX
  THEN Caps.currentExtent
  ELSE [width  |-> Max(Caps.minImageExtent.width,
                       Min(Caps.maxImageExtent.width, ToUint32(WindowSize[1]))),
        height |-> Max(Caps.minImageExtent.width,
                       Min(Caps.maxImageExtent.width, ToUint32(WindowSize[2])))]

\* WindowSize is what GetWindowSize() returns when the function calls it.
chooseExtent(Caps, WindowSize) ==
  IF Caps.currentExtent.width # UINT32_MAX
  THEN Caps.currentExtent
  ELSE [width  |-> Max(Caps.minImageExtent.width,
                       Min(Caps.maxImageExtent.width, ToUint32(WindowSize[1]))),
        height |-> Max(Caps.minImageExtent.height,
                       Min(Caps.maxImageExtent.height, ToUint32(WindowSize[2])))]

MaxImageCount == 3

\* minImageCount and maxImageCount of the surface capabilities: at least one
\* image, and a maximum that is 0 (no limit) or not below the minimum.
ImageCounts ==
  {[minImageCount |-> a, maxImageCount |-> b] :
     a \in 1..MaxImageCount, b \in 0..MaxImageCount} \
  {c \in [minImageCount : 1..MaxImageCount, maxImageCount : 1..MaxImageCount] :
     c.maxImageCount < c.minImageCount}

\* A count clamped to maxImageCount even when maxImageCount is 0.
MinImageCount_AlwaysClamped(Caps) ==
  IF ToUint32(Caps.minImageCount + 1) > Caps.maxImageCount
  THEN Caps.maxImageCount
  ELSE ToUint32(Caps.minImageCount + 1)

\* The MinImageCount that createSwapchain puts in CreateInfo.minImageCount.
MinImageCount(Caps) ==
  IF Caps.maxImageCount > 0 /\ ToUint32(Caps.minImageCount + 1) > Caps.maxImageCount
  THEN Caps.maxImageCount
  ELSE ToUint32(Caps.minImageCount + 1)

MaxQueueFamilies == 2

\* QueueFamilyIndices as constructed: neither index is populated (-1).
NoIndices == [GraphicsFamilyIndex |-> -1, PresentFamilyIndex |-> -1]

\* QueueFamilyIndices::isComplete: both indices are populated.
isComplete(Indices) == Indices.GraphicsFamilyIndex >= 0 /\ Indices.PresentFamilyIndex >= 0

\* What Device.getQueueFamilyProperties() and, for each family, a call of
\* Device.getSurfaceSupportKHR can report.
QueueFamilies ==
  [queueCount : 0..1, graphics : BOOLEAN,
   support : {[Result |-> "eSuccess", PresentSupported |-> TRUE],
              [Result |-> "eSuccess", PresentSupported |-> FALSE],
              [Result |-> "getSurfaceSupportKHR", PresentSupported |-> FALSE]}]

AfterGraphics(Indices, QueueFamily, I) ==
  IF QueueFamily.queueCount > 0 /\ QueueFamily.graphics
  THEN [Indices EXCEPT !.GraphicsFamilyIndex = I]
  ELSE Indices

AfterPresent(Indices, QueueFamily, I) ==
  IF QueueFamily.queueCount > 0 /\ QueueFamily.support.PresentSupported
  THEN [Indices EXCEPT !.PresentFamilyIndex = I]
  ELSE Indices

\* A scan that does not stop when both indices are populated.
RECURSIVE queryQueueFamiliesFrom_NoBreak(_, _, _)
queryQueueFamiliesFrom_NoBreak(I, Indices, QueueFamilyProperties) ==
  IF I >= Len(QueueFamilyProperties)
  THEN [Result |-> "eSuccess", Indices |-> Indices, probes |-> I]
  ELSE IF Guard(QueueFamilyProperties[I + 1].support.Result)
  THEN [Result |-> QueueFamilyProperties[I + 1].support.Result,
        Indices |-> AfterGraphics(Indices, QueueFamilyProperties[I + 1], I),
        probes |-> I + 1]
  ELSE queryQueueFamiliesFrom_NoBreak(I + 1,
         AfterPresent(AfterGraphics(Indices, QueueFamilyProperties[I + 1], I),
                      QueueFamilyProperties[I + 1], I),
         QueueFamilyProperties)

\* The loop of queryQueueFamilies from family I on (families are numbered
\* from 0 in the code and from 1 here); probes counts the calls of
\* getSurfaceSupportKHR.
RECURSIVE queryQueueFamiliesFrom(_, _, _)
queryQueueFamiliesFrom(I, Indices, QueueFamilyProperties) ==
  IF I >= Len(QueueFamilyProperties)
  THEN [Result |-> "eSuccess", Indices |-> Indices, probes |-> I]
  ELSE IF Guard(QueueFamilyProperties[I + 1].support.Result)
  THEN [Result |-> QueueFamilyProperties[I + 1].support.Result,
        Indices |-> AfterGraphics(Indices, QueueFamilyProperties[I + 1], I),
        probes |-> I + 1]
  ELSE IF isComplete(AfterPresent(AfterGraphics(Indices, QueueFamilyProperties[I + 1], I),
                                  QueueFamilyProperties[I + 1], I))
  THEN [Result |-> "eSuccess",
        Indices |-> AfterPresent(AfterGraphics(Indices, QueueFamilyProperties[I + 1], I),
                                 QueueFamilyProperties[I + 1], I),
        probes |-> I + 1]
  ELSE queryQueueFamiliesFrom(I + 1,
         AfterPresent(AfterGraphics(Indices, QueueFamilyProperties[I + 1], I),
                      QueueFamilyProperties[I + 1], I),
         QueueFamilyProperties)

\* What the API calls made by createBuffer can report: api.memoryTypeBits is
\* MemRequirements.memoryTypeBits, the other fields are vk::Results.
BufferApis ==
  [createBufferUnique : {"eSuccess", "createBufferUnique"},
   memoryTypeBits : 0..(2 ^ MaxMemoryTypes - 1),
   MemProperties : MemoryProperties,
   allocateMemoryUnique : {"eSuccess", "allocateMemoryUnique"},
   bindBufferMemory : {"eSuccess", "bindBufferMemory"}]

\* Engine::createBuffer: its Result, the API calls it made, whether the
\* returned tuple holds a buffer, the type of the memory it holds (-1: none)
\* and whether that memory is bound to the buffer.
createBuffer(MemoryFlags, api) ==
  IF Guard(api.createBufferUnique)
  THEN [Result |-> api.createBufferUnique, calls |-> <<"createBufferUnique">>,
        Buffer |-> FALSE, MemoryTypeIndex |-> -1, bound |-> FALSE]
  ELSE IF Guard(queryMemoryType(api.memoryTypeBits, MemoryFlags, api.MemProperties).result)
  THEN [Result |-> queryMemoryType(api.memoryTypeBits, MemoryFlags,
                                   api.MemProperties).result,
        calls |-> <<"createBufferUnique", "getBufferMemoryRequirements",
                    "queryMemoryType">>,
        Buffer |-> TRUE, MemoryTypeIndex |-> -1, bound |-> FALSE]
  ELSE IF Guard(api.allocateMemoryUnique)
  THEN [Result |-> api.allocateMemoryUnique,
        calls |-> <<"createBufferUnique", "getBufferMemoryRequirements",
                    "queryMemoryType", "allocateMemoryUnique">>,
        Buffer |-> TRUE, MemoryTypeIndex |-> -1, bound |-> FALSE]
  ELSE [Result |-> "eSuccess",
        calls |-> <<"createBufferUnique", "getBufferMemoryRequirements",
                    "queryMemoryType", "allocateMemoryUnique", "bindBufferMemory">>,
        Buffer |-> TRUE,
        MemoryTypeIndex |-> queryMemoryType(api.memoryTypeBits, MemoryFlags,
                                            api.MemProperties).value,
        bound |-> ~Guard(api.bindBufferMemory)]

\* What the API calls made during a staged upload can report.
UploadApis ==
  [createStagingBuffer : {"eSuccess", "createBuffer:staging"},
   mapMemory : {"eSuccess", "mapMemory"},
   createDestinationBuffer : {"eSuccess", "createBuffer:destination"},
   allocateCommandBuffers : {"eSuccess", "allocateCommandBuffers"},
   submit : {"eSuccess", "submit"},
   waitIdle : {"eSuccess", "GraphicsQueue.waitIdle"}]

\* Engine::copyBuffer: its Result, the calls it made and whether the copy it
\* submitted may still be executing when it returns.
copyBuffer(api) ==
  IF Guard(api.allocateCommandBuffers)
  THEN [Result |-> api.allocateCommandBuffers, calls |-> <<"allocateCommandBuffers">>,
        executing |-> FALSE]
  ELSE [Result |-> "eSuccess",
        calls |-> <<"allocateCommandBuffers", "begin", "copyBuffer", "end", "submit",
                    "GraphicsQueue.waitIdle">>,
        executing |-> ~Guard(api.submit) /\ Guard(api.waitIdle)]

\* The body shared by createVertexBuffer and createIndexBuffer.  The staging
\* tuple is a local, released when the function returns.  memcpy through a
\* pointer that mapMemory did not set is undefined: the upload may stop there
\* (crash) or go on.
stagedUpload(api, crash) ==
  IF crash
  THEN [Result |-> "none", crashed |-> TRUE,
        calls |-> <<"createBuffer:staging", "mapMemory:staging", "memcpy">>,
        stagingMemory |-> {"eHostVisible", "eHostCoherent"},
        destination |-> FALSE, destinationUsage |-> {}, destinationMemory |-> {},
        executingAtRelease |-> FALSE]
  ELSE [Result |-> "eSuccess", crashed |-> FALSE,
        calls |-> <<"createBuffer:staging", "mapMemory:staging", "memcpy",
                    "unmapMemory:staging", "createBuffer:destination">>
                  \o copyBuffer(api).calls \o <<"release:staging">>,
        stagingMemory |-> {"eHostVisible", "eHostCoherent"},
        destination |-> ~Guard(api.createDestinationBuffer),
        destinationUsage |-> {"eTransferDst", "eVertexBuffer"},
        destinationMemory |-> {"eDeviceLocal"},
        executingAtRelease |-> copyBuffer(api).executing]

MaxExtensions == 2

\* Extension names: the swapchain extension and another.
VK_KHR_SWAPCHAIN_EXTENSION_NAME == "VK_KHR_swapchain"

ExtensionNames == {VK_KHR_SWAPCHAIN_EXTENSION_NAME, "VK_KHR_surface"}

RequiredInstanceExtensions == <<>>

RequiredDeviceExtensions == <<VK_KHR_SWAPCHAIN_EXTENSION_NAME>>

\* What the caller hands to the constructor.
EngineCreateInfos ==
  [InstanceExtensions : SeqsUpTo(ExtensionNames, MaxExtensions),
   DeviceExtensions : SeqsUpTo(ExtensionNames, MaxExtensions)]

\* engine::Engine::Engine: the members are moved from CreateInfo and the
\* required names are inserted at their end.
Engine(CreateInfo) ==
  [InstanceExtensions |-> CreateInfo.InstanceExtensions \o RequiredInstanceExtensions,
   DeviceExtensions |-> CreateInfo.DeviceExtensions \o RequiredDeviceExtensions]

\* vkmol::Engine::Engine of src/Engine.cpp: its parameters have the names of
\* the members, so the members are moved from the parameters and the body's
\* reserve and insert act on the parameters, which are gone at its end.
LegacyEngine(InstanceExtensions, DeviceExtensions) ==
  [InstanceExtensions |-> InstanceExtensions, DeviceExtensions |-> DeviceExtensions]

Constructors == {"engine::Engine", "vkmol::Engine"}

\* The engine the named constructor makes of the caller's lists.
Construct(constructor, CreateInfo) ==
  IF constructor = "engine::Engine" THEN Engine(CreateInfo)
  ELSE LegacyEngine(CreateInfo.InstanceExtensions, CreateInfo.DeviceExtensions)

\* The elements of a vector.
Elements(s) == {s[i] : i \in 1..Len(s)}

\* The vector s without the first element equal to x.
EraseFirst(s, x) ==
  IF x \notin Elements(s) THEN s
  ELSE LET k == CHOOSE i \in 1..Len(s) : s[i] = x /\ \A j \in 1..(i - 1) : s[j] # x
       IN  SubSeq(s, 1, k - 1) \o SubSeq(s, k + 1, Len(s))

\* The loop of checkDeviceExtensionSupport from the I-th available extension
\* on: RequiredExtensions.erase(Extension.extensionName).
RECURSIVE EraseAvailable(_, _, _)
EraseAvailable(I, RequiredExtensions, AvailableExtensions) ==
  IF I > Len(AvailableExtensions) THEN RequiredExtensions
  ELSE EraseAvailable(I + 1, RequiredExtensions \ {AvailableExtensions[I]},
                      AvailableExtensions)

\* The same loop over a vector of required names, of which an available
\* extension erases one occurrence.
RECURSIVE EraseAvailableOnce(_, _, _)
EraseAvailableOnce(I, RequiredExtensions, AvailableExtensions) ==
  IF I > Len(AvailableExtensions) THEN RequiredExtensions
  ELSE EraseAvailableOnce(I + 1, EraseFirst(RequiredExtensions, AvailableExtensions[I]),
                          AvailableExtensions)

\* A checkDeviceExtensionSupport that keeps the required names in a vector.
checkDeviceExtensionSupportOf_Vector(DeviceExtensions, Result, AvailableExtensions) ==
  IF Guard(Result) THEN [Result |-> Result, value |-> FALSE]
  ELSE [Result |-> "eSuccess",
        value |-> EraseAvailableOnce(1, DeviceExtensions, AvailableExtensions) = <<>>]

\* The extension lists an engine hands to createInstanceUnique and to
\* createDeviceUnique, and the names checkDeviceExtensionSupport requires.
extensionsUsed(engine) ==
  [InstanceExtensions |-> engine.InstanceExtensions,
   DeviceExtensions |-> engine.DeviceExtensions,
   createInstanceUnique |-> engine.InstanceExtensions,
   createDeviceUnique |-> engine.DeviceExtensions,
   RequiredExtensions |-> Elements(engine.DeviceExtensions)]

\* checkDeviceExtensionSupport of an engine whose list is DeviceExtensions,
\* when enumerateDeviceExtensionProperties gives (Result, AvailableExtensions).
checkDeviceExtensionSupportOf(DeviceExtensions, Result, AvailableExtensions) ==
  IF Guard(Result) THEN [Result |-> Result, value |-> FALSE]
  ELSE [Result |-> "eSuccess",
        value |-> EraseAvailable(1, Elements(DeviceExtensions), AvailableExtensions) = {}]

\* The elements of a std::set<int> in the order its iteration gives them.
RECURSIVE InOrder(_)
InOrder(S) ==
  IF S = {} THEN <<>>
  ELSE LET least == CHOOSE x \in S : \A y \in S : x <= y
       IN  <<least>> \o InOrder(S \ {least})

\* The QueueCreateInfos createLogicalDevice hands to createDeviceUnique: one
\* per element of UniqueQueueFamilies, each asking for one queue.
QueueCreateInfos(Indices) ==
  LET UniqueQueueFamilies ==
        InOrder({Indices.GraphicsFamilyIndex, Indices.PresentFamilyIndex})
  IN  [k \in 1..Len(UniqueQueueFamilies) |->
         [queueFamilyIndex |-> ToUint32(UniqueQueueFamilies[k]), queueCount |-> 1]]

\* What can be read, when createSwapchainKHRUnique is called, at
\* CreateInfo.pQueueFamilyIndices: the array it points to is local to the
\* block of the if statement, which has been left by then, so its two elements
\* are the values written to it or whatever took their place.
DanglingQueueFamilyIndices(Indices) ==
  {<<ToUint32(Indices.GraphicsFamilyIndex), ToUint32(Indices.PresentFamilyIndex)>>}
  \cup {<<a, b>> : a \in 0..MaxQueueFamilies, b \in 0..MaxQueueFamilies}

\* The sharing fields of the CreateInfo createSwapchain hands to
\* createSwapchainKHRUnique, of which the driver reads Read at
\* pQueueFamilyIndices.
imageSharing(Indices, Read) ==
  IF Indices.GraphicsFamilyIndex # Indices.PresentFamilyIndex
  THEN [imageSharingMode |-> "eConcurrent", queueFamilyIndexCount |-> 2,
        pQueueFamilyIndices |-> Read]
  ELSE [imageSharingMode |-> "eExclusive", queueFamilyIndexCount |-> 0,
        pQueueFamilyIndices |-> <<>>]

\* createLogicalDevice and createSwapchain on a device whose families are
\* QueueFamilyProperties: the queues asked of the device and the sharing
\* asked of the swapchain.
queuesAndSharing(QueueFamilyProperties, Read) ==
  LET Q == queryQueueFamiliesFrom(0, NoIndices, QueueFamilyProperties)
  IN  IF Guard(Q.Result)
      THEN [Result |-> Q.Result, Indices |-> Q.Indices, QueueCreateInfos |-> <<>>,
            CreateInfo |-> imageSharing(NoIndices, <<>>)]
      ELSE [Result |-> "eSuccess", Indices |-> Q.Indices,
            QueueCreateInfos |-> QueueCreateInfos(Q.Indices),
            CreateInfo |-> imageSharing(Q.Indices, Read)]

\* The calls whose arguments the model draws.
Arguments ==
  [fn : {"queryMemoryType"}, TypeFilter : 0..(2 ^ MaxMemoryTypes - 1),
   Properties : SUBSET MemoryPropertyFlagBits, MemProperties : MemoryProperties]
  \cup [fn : {"chooseSurfaceFormat"}, Formats : SeqsUpTo(SurfaceFormats, MaxFormats)]
  \cup [fn : {"choosePresentMode"}, Modes : SeqsUpTo(PresentModes, MaxModes)]
  \cup [fn : {"chooseExtent"}, Capabilities : SurfaceCapabilities, WindowSize : WindowSizes]
  \cup [fn : {"createSwapchain"}, Capabilities : ImageCounts]
  \cup [fn : {"createBuffer"}, MemoryFlags : SUBSET MemoryPropertyFlagBits, api : BufferApis]
  \cup [fn : {"createVertexBuffer"}, api : UploadApis]
  \cup [fn : {"queryQueueFamilies"},
        QueueFamilyProperties : SeqsUpTo(QueueFamilies, MaxQueueFamilies)]
  \cup [fn : {"createLogicalDevice"},
        QueueFamilyProperties : SeqsUpTo(QueueFamilies, MaxQueueFamilies)]
  \cup [fn : {"Engine"}, constructor : Constructors, CreateInfo : EngineCreateInfos]
  \cup [fn : {"checkDeviceExtensionSupport"}, constructor : Constructors,
        CreateInfo : EngineCreateInfos,
        Result : {"eSuccess", "eErrorOutOfHostMemory"},
        AvailableExtensions : SeqsUpTo(ExtensionNames, MaxExtensions)]

InitPure ==
  /\ Devices = <<DiscreteDevice>>
  /\ Constructed
  /\ args \in Arguments
  /\ result = NotCalled

Returned(value) ==
  /\ result = NotCalled
  /\ result' = [fn |-> args.fn, value |-> value]
  /\ UNCHANGED <<Sync, args, Devices, E, CurrentFrame, pc, ret, calls, fenceSignaled, inFlight,
                 ImageIndex, Submitted, uboRace, Candidates, faults>>

QueryMemoryType ==
  /\ args.fn = "queryMemoryType"
  /\ Returned(queryMemoryType(args.TypeFilter, args.Properties, args.MemProperties))

\* Formats.front() of an empty vector is undefined: anything may come back.
ChooseSurfaceFormat ==
  /\ args.fn = "chooseSurfaceFormat"
  /\ IF args.Formats = <<>>
     THEN \E Format \in SurfaceFormats : Returned(Format)
     ELSE Returned(chooseSurfaceFormat(args.Formats))

ChoosePresentMode ==
  /\ args.fn = "choosePresentMode"
  /\ Returned(choosePresentMode(args.Modes))

ChooseExtent ==
  /\ args.fn = "chooseExtent"
  /\ Returned(chooseExtent(args.Capabilities, args.WindowSize))

\* The part of createSwapchain that computes the requested image count.
RequestImageCount ==
  /\ args.fn = "createSwapchain"
  /\ Returned(MinImageCount(args.Capabilities))

QueryQueueFamilies ==
  /\ args.fn = "queryQueueFamilies"
  /\ Returned(queryQueueFamiliesFrom(0, NoIndices, args.QueueFamilyProperties))

CreateBuffer ==
  /\ args.fn = "createBuffer"
  /\ Returned(createBuffer(args.MemoryFlags, args.api))

CreateVertexBuffer ==
  /\ args.fn = "createVertexBuffer"
  /\ \E crash \in IF Guard(args.api.createStagingBuffer) \/ Guard(args.api.mapMemory)
                   THEN BOOLEAN ELSE {FALSE} :
       Returned(stagedUpload(args.api, crash))

\* checkDeviceExtensionSupport of an engine constructed from args.CreateInfo.
CheckDeviceExtensionSupport ==
  /\ args.fn = "checkDeviceExtensionSupport"
  /\ Returned(checkDeviceExtensionSupportOf(
                Construct(args.constructor, args.CreateInfo).DeviceExtensions,
                args.Result, args.AvailableExtensions))

\* The construction of an engine and the extension lists it goes on to use.
ConstructEngine ==
  /\ args.fn = "Engine"
  /\ Returned(extensionsUsed(Construct(args.constructor, args.CreateInfo)))

\* createLogicalDevice followed by createSwapchain on the selected device.
CreateLogicalDeviceAndSwapchain ==
  /\ args.fn = "createLogicalDevice"
  /\ \E Read \in DanglingQueueFamilyIndices(
                    queryQueueFamiliesFrom(0, NoIndices, args.QueueFamilyProperties).Indices) :
       Returned(queuesAndSharing(args.QueueFamilyProperties, Read))

NextPure ==
  \/ QueryMemoryType
  \/ ChooseSurfaceFormat
  \/ ChoosePresentMode
  \/ ChooseExtent
  \/ RequestImageCount
  \/ QueryQueueFamilies
  \/ CreateBuffer
  \/ CreateVertexBuffer
  \/ CheckDeviceExtensionSupport
  \/ ConstructEngine
  \/ CreateLogicalDeviceAndSwapchain

SpecPure == InitPure /\ [][NextPure]_vars

\* The memory type indices that fit the call's arguments.
Fitting ==
  {i \in 0..(args.MemProperties.memoryTypeCount - 1) :
     /\ (args.TypeFilter \div (2 ^ i)) % 2 = 1
     /\ args.Properties \subseteq args.MemProperties.memoryTypes[i + 1].propertyFlags}

SurfaceFormatAsSpecified ==
  (result.fn = "chooseSurfaceFormat" /\ args.Formats # <<>>) =>
    result.value =
      IF Len(args.Formats) = 1 /\ args.Formats[1].format = "eUndefined"
      THEN PreferredFormat
      ELSE IF \E i \in 1..Len(args.Formats) : /\ args.Formats[i].format = "eB8G8R8A8Unorm"
                                              /\ args.Formats[i].colorSpace = "eSrgbNonlinear"
      THEN PreferredFormat
      ELSE args.Formats[1]

PreferredFoundSecond ==
  /\ result.fn = "chooseSurfaceFormat"
  /\ Len(args.Formats) = 2
  /\ args.Formats[1] # PreferredFormat
  /\ args.Formats[2] = PreferredFormat
  /\ result.value = PreferredFormat

\* C20: choosePresentMode returns mailbox for every list that contains mailbox
\* at any position, and FIFO for every list that does not, whatever other
\* modes (such as immediate) the list contains.
PresentModeAsSpecified ==
  result.fn = "choosePresentMode" =>
    result.value = IF \E i \in 1..Len(args.Modes) : args.Modes[i] = "eMailbox"
                   THEN "eMailbox"
                   ELSE "eFifo"

ImmediateWithoutMailboxGivesFifo ==
  /\ result.fn = "choosePresentMode"
  /\ \E i \in 1..Len(args.Modes) : args.Modes[i] = "eImmediate"
  /\ \A i \in 1..Len(args.Modes) : args.Modes[i] # "eMailbox"
  /\ result.value = "eFifo"


\* x brought into [lo, hi].
Clamped(x, lo, hi) == IF x < lo THEN lo ELSE IF x > hi THEN hi ELSE x

\* C21: chooseExtent returns a defined current extent unmodified; when the
\* current extent is the undefined sentinel, the window size converted to
\* unsigned is clamped per axis into [minImageExtent, maxImageExtent], for
\* every axis whose minimum is not above its maximum.
ExtentAsSpecified ==
  result.fn = "chooseExtent" =>
    IF args.Capabilities.currentExtent # [width |-> UINT32_MAX, height |-> UINT32_MAX]
    THEN result.value = args.Capabilities.currentExtent
    ELSE /\ args.Capabilities.minImageExtent.width <= args.Capabilities.maxImageExtent.width
              => /\ result.value.width >= args.Capabilities.minImageExtent.width
                 /\ result.value.width <= args.Capabilities.maxImageExtent.width
                 /\ result.value.width =
                      Clamped(IF args.WindowSize[1] < 0
                              THEN args.WindowSize[1] + UINT32_MAX + 1
                              ELSE args.WindowSize[1],
                              args.Capabilities.minImageExtent.width,
                              args.Capabilities.maxImageExtent.width)
         /\ args.Capabilities.minImageExtent.height <= args.Capabilities.maxImageExtent.height
              => /\ result.value.height >= args.Capabilities.minImageExtent.height
                 /\ result.value.height <= args.Capabilities.maxImageExtent.height
                 /\ result.value.height =
                      Clamped(IF args.WindowSize[2] < 0
                              THEN args.WindowSize[2] + UINT32_MAX + 1
                              ELSE args.WindowSize[2],
                              args.Capabilities.minImageExtent.height,
                              args.Capabilities.maxImageExtent.height)

\* An undefined current extent, a window too wide and not high enough.
ClampedBothWays ==
  /\ result.fn = "chooseExtent"
  /\ args.Capabilities.currentExtent.width = UINT32_MAX
  /\ args.Capabilities.minImageExtent = [width |-> 0, height |-> 1]
  /\ args.Capabilities.maxImageExtent = [width |-> 1, height |-> 1]
  /\ args.WindowSize = <<MaxExtent + 1, 0>>
  /\ result.value = [width |-> 1, height |-> 1]


ProbeErrorIsFatal ==
  /\ faults > 0 =>
       /\ pc = "failed"
       /\ ret \in ProbeSites
       /\ calls[Len(calls)] = [op |-> "createPhysicalDevice", res |-> ret]
       /\ E.PhysicalDevice = 0
       /\ ret # "enumeratePhysicalDevices" => Len(Candidates) < Len(Devices)
  /\ Selected =>
       /\ Len(Candidates) = Len(Devices)
       /\ \A c \in 1..Len(Candidates) :
            ~Viable(Devices[Candidates[c].Device]) => Candidates[c].Score = 0
       /\ \A i \in CallsOf({"createPhysicalDevice"}) : calls[i].res \notin ProbeSites

\* The extension probe failed on the second device, after the first was
\* scored 0.
ProbeFailedAfterCandidate ==
  /\ faults > 0
  /\ ret = "enumerateDeviceExtensionProperties"
  /\ Len(Candidates) = 1
  /\ Candidates[1].Score = 0


FrameOrder ==
  <<"waitForFences", "resetFences", "acquireNextImageKHR", "submit", "presentKHR",
    "advance">>

IsFrameStep(call) == \E k \in 1..Len(FrameOrder) : call.op = FrameOrder[k]

\* The steps of drawFrame are made in their order.
FrameStepsInOrder ==
  InDrawFrame =>
    \A k \in 1..Len(SelectSeq(calls, IsFrameStep)) :
      /\ k <= Len(FrameOrder)
      /\ SelectSeq(calls, IsFrameStep)[k].op = FrameOrder[k]

\* The submission and the present use the semaphores and the fence of the
\* slot whose image-available semaphore the acquire was given.
SlotSemaphoresUsed ==
  /\ pc = "present" =>
       /\ Sync.acquire = CurrentFrame
       /\ Sync.WaitSemaphores = Sync.acquire
       /\ Sync.SignalSemaphores = CurrentFrame
       /\ Sync.fence = CurrentFrame
  /\ Sync.present # -1 => Sync.present = Sync.SignalSemaphores

\* What was submitted is the command buffer recorded for the acquired image.
SubmittedIsRecordedForImage ==
  pc = "present" =>
    /\ ImageIndex \in DOMAIN E.CommandBuffers
    /\ Submitted = E.CommandBuffers[ImageIndex]
    /\ Submitted # Unrecorded

\* C24: in each drawFrame the steps are made in the order fence wait, fence
\* reset, acquire, submit, present, cursor advance; the submitted command
\* buffer is the one recorded for the acquired image index; the submission
\* waits on the slot's image-available semaphore and signals the slot's
\* render-finished semaphore and fence, and the present waits on that
\* render-finished semaphore.
FrameStepsAsSpecified ==
  /\ FrameStepsInOrder
  /\ SlotSemaphoresUsed
  /\ SubmittedIsRecordedForImage


StaleAcquire ==
  {i \in CallsOf({"acquireNextImageKHR"}) : calls[i].res \in Stale}

\* C25: a drawFrame whose acquire reported out-of-date or suboptimal calls
\* recreateSwapchain exactly once and makes no submit and no presentKHR.
StaleAcquireAbandonsFrame ==
  (InDrawFrame /\ StaleAcquire # {}) =>
    /\ Cardinality(CallsOf({"recreateSwapchain"})) = 1
    /\ CallsOf({"submit", "presentKHR"}) = {}
    /\ pc = "ready"
    /\ Submitted = NoCommandBuffer

FrameAbandonedAtAcquire ==
  /\ pc = "ready" /\ InDrawFrame
  /\ \E i \in StaleAcquire : calls[i].res = "eErrorOutOfDateKHR"
  /\ calls[Len(calls)] = [op |-> "recreateSwapchain", res |-> "eSuccess"]


StalePresent ==
  {i \in CallsOf({"presentKHR"}) : calls[i].res \in Stale}

\* C26: a drawFrame whose presentKHR reported out-of-date or suboptimal
\* calls recreateSwapchain exactly once, the recreation destroys nothing unless
\* its device-idle wait succeeded, and the stale status is not returned as an
\* error by the result check after the recreation.
StalePresentHandledOnce ==
  (InDrawFrame /\ pc = "ready" /\ StalePresent # {}) =>
    /\ Cardinality(CallsOf({"recreateSwapchain"})) = 1
    /\ \A w \in CallsOf({"waitIdle"}) :
         Guard(calls[w].res) => calls[w + 1].op = "recreateSwapchain"
    /\ ret \notin Stale


\* The families among the first n that can do graphics, and those that can
\* present to the surface.
GraphicsCapable(n) ==
  {i \in 0..(n - 1) : /\ args.QueueFamilyProperties[i + 1].queueCount > 0
                      /\ args.QueueFamilyProperties[i + 1].graphics}

PresentCapable(n) ==
  {i \in 0..(n - 1) : /\ args.QueueFamilyProperties[i + 1].queueCount > 0
                      /\ args.QueueFamilyProperties[i + 1].support.PresentSupported}

\* C27: queryQueueFamilies returns indices of which a populated graphics index
\* names a non-empty family with the graphics flag and a populated present
\* index a non-empty family with surface-present support; both are populated
\* whenever the device has a family of each kind, and the scan stops at the
\* first family at which both are populated.
QueueFamiliesAsSpecified ==
  (result.fn = "queryQueueFamilies" /\ result.value.Result = "eSuccess") =>
    /\ result.value.Indices.GraphicsFamilyIndex # -1 =>
         result.value.Indices.GraphicsFamilyIndex
           \in GraphicsCapable(Len(args.QueueFamilyProperties))
    /\ result.value.Indices.PresentFamilyIndex # -1 =>
         result.value.Indices.PresentFamilyIndex
           \in PresentCapable(Len(args.QueueFamilyProperties))
    /\ ( /\ GraphicsCapable(Len(args.QueueFamilyProperties)) # {}
         /\ PresentCapable(Len(args.QueueFamilyProperties)) # {} )
         => /\ result.value.Indices.GraphicsFamilyIndex # -1
            /\ result.value.Indices.PresentFamilyIndex # -1
    /\ \A n \in 1..Len(args.QueueFamilyProperties) :
         (GraphicsCapable(n) # {} /\ PresentCapable(n) # {}) => result.value.probes <= n

ScanStoppedEarly ==
  /\ result.fn = "queryQueueFamilies"
  /\ result.value.Result = "eSuccess"
  /\ Len(args.QueueFamilyProperties) = 2
  /\ result.value.probes = 1
  /\ result.value.Indices = [GraphicsFamilyIndex |-> 0, PresentFamilyIndex |-> 0]


CreateBufferOrder ==
  <<"createBufferUnique", "getBufferMemoryRequirements", "queryMemoryType",
    "allocateMemoryUnique", "bindBufferMemory">>

\* The memory types that fit the buffer's requirements and the requested flags.
FittingBuffer ==
  {i \in 0..(args.api.MemProperties.memoryTypeCount - 1) :
     /\ (args.api.memoryTypeBits \div (2 ^ i)) % 2 = 1
     /\ args.MemoryFlags \subseteq args.api.MemProperties.memoryTypes[i + 1].propertyFlags}

Made(op) == \E k \in 1..Len(result.value.calls) : result.value.calls[k] = op

\* C28: createBuffer makes its calls in the order create-buffer,
\* query-requirements, queryMemoryType, allocate, bind and stops at the first
\* failure: without a fitting memory type it returns the memory-type error
\* and neither allocates nor binds, when the allocation fails it returns that
\* error and does not bind, and it returns eSuccess only with a buffer bound
\* to memory of a fitting type.
CreateBufferAsSpecified ==
  result.fn = "createBuffer" =>
    /\ \A k \in 1..Len(result.value.calls) : result.value.calls[k] = CreateBufferOrder[k]
    /\ (Made("queryMemoryType") /\ FittingBuffer = {}) =>
         /\ result.value.Result = "eErrorOutOfDeviceMemory"
         /\ ~Made("allocateMemoryUnique") /\ ~Made("bindBufferMemory")
    /\ (Made("allocateMemoryUnique") /\ args.api.allocateMemoryUnique # "eSuccess") =>
         /\ result.value.Result = args.api.allocateMemoryUnique
         /\ ~Made("bindBufferMemory")
    /\ result.value.Result = "eSuccess" =>
         /\ result.value.Buffer
         /\ result.value.MemoryTypeIndex \in FittingBuffer
         /\ result.value.bound


UploadOrder ==
  <<"createBuffer:staging", "mapMemory:staging", "memcpy", "unmapMemory:staging",
    "createBuffer:destination", "allocateCommandBuffers", "begin", "copyBuffer", "end",
    "submit", "GraphicsQueue.waitIdle", "release:staging">>

PlaceInUpload(op) == CHOOSE k \in 1..Len(UploadOrder) : UploadOrder[k] = op

\* C29: a staged upload makes its steps in the order create staging buffer
\* (host-visible and coherent), map, copy, unmap, create device-local
\* destination with the transfer-destination usage, submit the copy, wait for
\* the queue to go idle, release the staging buffer; the staging buffer is
\* released at the end, never while the copy may still be executing, and the
\* destination is never mapped.
StagedUploadAsSpecified ==
  result.fn = "createVertexBuffer" =>
    /\ \A j, k \in 1..Len(result.value.calls) :
         j < k => PlaceInUpload(result.value.calls[j]) < PlaceInUpload(result.value.calls[k])
    /\ result.value.calls[Len(result.value.calls)] = "release:staging"
    /\ result.value.stagingMemory = {"eHostVisible", "eHostCoherent"}
    /\ "eTransferDst" \in result.value.destinationUsage
    /\ result.value.destinationMemory = {"eDeviceLocal"}
    /\ ~result.value.executingAtRelease


\* A step that is a call of setActivePipeline.
IsSetActivePipeline ==
  /\ pc = "ready" /\ calls' # calls
  /\ Len(calls') = 2
  /\ calls'[1].op = "waitIdle" /\ calls'[2].op = "createCommandBuffers"

\* C30: after setActivePipeline(X) every command buffer that drawFrame can
\* submit binds variant X, also after a later recreateSwapchain, and the
\* command buffers are re-recorded only once the device is idle.
ActiveVariantRecorded ==
  /\ [](pc = "ready" =>
          \A i \in DOMAIN E.CommandBuffers :
            E.CommandBuffers[i].variant = E.ActivePipeline)
  /\ [][(IsSetActivePipeline /\ E'.CommandBuffers # E.CommandBuffers)
          => /\ calls'[1].res = "eSuccess"
             /\ \A i \in Slots : inFlight'[i] = 0]_vars

-----------------------------------------------------------------------------
(* Swapchain chaining (specification Spec). *)

\* The step called createSwapchain and the call got as far as
\* createSwapchainKHRUnique.
CreatesSwapchain ==
  /\ calls' # calls
  /\ \E k \in 1..Len(calls') :
       /\ calls'[k].op = "createSwapchain"
       /\ calls'[k].res \in {"eSuccess", "createSwapchainKHRUnique",
                             "getSwapchainImagesKHR"}

\* The step made a new swapchain.
MadeSwapchain == E'.Generation = E.Generation + 1

\* C31, as stated: createSwapchain passes as oldSwapchain the null handle on
\* the first creation and the previous generation's handle on every
\* recreation, and that swapchain still exists when the new one is created.
OldSwapchainIsPreviousGeneration ==
  [][CreatesSwapchain =>
       /\ E'.oldSwapchain = IF pc = "constructed" THEN 0 ELSE E.Generation
       /\ (MadeSwapchain /\ pc # "constructed") => "Swapchain" \in E'.Overlap]_vars

\* C31, amended: createSwapchain passes as oldSwapchain the handle the engine
\* holds, which is null on the first creation and is afterwards the previous
\* generation's handle or, once a creation has failed, null; a non-null old
\* swapchain still exists when the new one is created.
OldSwapchainIsHeldHandle ==
  [][CreatesSwapchain =>
       /\ E'.oldSwapchain = E.Swapchain
       /\ E.Swapchain \in {0, E.Generation}
       /\ pc = "constructed" => E.Swapchain = 0
       /\ (MadeSwapchain /\ E.Swapchain # 0) => "Swapchain" \in E'.Overlap]_vars

\* C31 witness: the swapchain of generation 2 was created chained to the
\* swapchain of generation 1, which existed at that moment.
ChainedToPrevious ==
  /\ E.Generation = 2 /\ E.Swapchain = 2 /\ E.oldSwapchain = 1
  /\ "Swapchain" \in E.Overlap

-----------------------------------------------------------------------------
(* Extension lists (specification SpecPure). *)

\* The engine's DeviceExtensions in a call of checkDeviceExtensionSupport.
StoredDeviceExtensions == Construct(args.constructor, args.CreateInfo).DeviceExtensions

ExtensionsChecked ==
  /\ args.fn = "checkDeviceExtensionSupport" /\ result # NotCalled
  /\ result.value.Result = "eSuccess"

\* C32: checkDeviceExtensionSupport returns true exactly when every name of
\* the engine's DeviceExtensions is among the device's available extensions,
\* whatever the order and the multiplicity of the names in either list.
ExtensionSupportIsSubset ==
  ExtensionsChecked =>
    result.value.value =
      (\A i \in 1..Len(StoredDeviceExtensions) :
         \E j \in 1..Len(args.AvailableExtensions) :
           args.AvailableExtensions[j] = StoredDeviceExtensions[i])

\* C32 witness: the swapchain extension is required twice (the caller named
\* it too) and available once, after another extension; the result is true.
RequiredTwiceAvailableOnce ==
  /\ ExtensionsChecked
  /\ args.constructor = "engine::Engine"
  /\ args.CreateInfo.DeviceExtensions = <<VK_KHR_SWAPCHAIN_EXTENSION_NAME>>
  /\ args.AvailableExtensions = <<"VK_KHR_surface", VK_KHR_SWAPCHAIN_EXTENSION_NAME>>
  /\ result.value.value

-----------------------------------------------------------------------------
(* Sizes of the per-image vectors (specification Spec). *)

\* C33: after initialize and after every recreateSwapchain, successful or
\* not, there are as many swapchain images as image views, framebuffers and
\* command buffers, and the image index drawFrame submits with indexes an
\* existing command buffer.
PerImageVectorsAgree ==
  /\ pc \notin {"constructed", "failed"} =>
       /\ Len(E.SwapchainImageViews) = Len(E.SwapchainImages)
       /\ Len(E.SwapchainFramebuffers) = Len(E.SwapchainImages)
       /\ Len(E.CommandBuffers) = Len(E.SwapchainImages)
  /\ pc = "submit" => ImageIndex \in 1..Len(E.CommandBuffers)

-----------------------------------------------------------------------------
(* The device the swapchain is created for (specification SpecSelect). *)

\* C34: createLogicalDevice and createSwapchain are reached only with a
\* selected physical device whose queue-family indices are complete and
\* whose surface format list and present-mode list are non-empty.
SwapchainOnlyForViableDevice ==
  /\ CallsOf({"createLogicalDevice"}) # {} =>
       /\ E.PhysicalDevice \in 1..Len(Devices)
       /\ Devices[E.PhysicalDevice].queueFamiliesComplete
  /\ CallsOf({"createSwapchain"}) # {} =>
       /\ E.PhysicalDevice \in 1..Len(Devices)
       /\ Devices[E.PhysicalDevice].queueFamiliesComplete
       /\ Devices[E.PhysicalDevice].hasFormats
       /\ Devices[E.PhysicalDevice].hasPresentModes

-----------------------------------------------------------------------------
(* The fences of the frame slots (specification Spec). *)

\* C35: initialize leaves the fence of every slot signaled, and afterwards a
\* slot's fence is unsignaled only between its reset in drawFrame and the
\* completion of the submission made in that drawFrame call.
FenceUnsignaledOnlyWhileFramePending ==
  /\ (pc = "ready" /\ calls # <<>> /\ calls[1].op = "createInstance")
       => \A i \in Slots : fenceSignaled[i]
  /\ pc \notin {"constructed", "failed"} =>
       \A i \in Slots :
         ~fenceSignaled[i] =>
           \/ i = CurrentFrame /\ pc \in {"acquire", "submit"}
           \/ inFlight[i] > 0

-----------------------------------------------------------------------------
(* What a swapchain recreation leaves alone (specification Spec). *)

\* The step ran recreateSwapchain (from resize or from drawFrame).
RanRecreateSwapchain ==
  /\ calls' # calls /\ calls' # <<>>
  /\ calls'[Len(calls')].op = "recreateSwapchain"

\* The objects of the engine that do not belong to a swapchain generation.
Kept(e) ==
  <<e.Instance, e.Surface, e.Callback, e.PhysicalDevice, e.PhysicalDeviceFeatures,
    e.Device, e.ActivePipeline, e.SyncObjects, e.DescriptorSetLayout,
    e.PipelineLayout, e.CommandPool, e.DescriptorPool, e.DescriptorSets,
    e.VertexBuffer, e.IndexBuffer, e.UniformBuffer>>

-----------------------------------------------------------------------------
(* Queues and image sharing (specification SpecPure). *)

DeviceAndSwapchainCreated ==
  /\ args.fn = "createLogicalDevice" /\ result # NotCalled
  /\ result.value.Result = "eSuccess"

\* The graphics and present families as the uint32_t values handed to Vulkan.
BothFamilies ==
  {ToUint32(result.value.Indices.GraphicsFamilyIndex),
   ToUint32(result.value.Indices.PresentFamilyIndex)}

\* The device is asked for one queue of each distinct family among the
\* graphics and the present family, and for nothing else.
OneQueuePerFamily ==
  DeviceAndSwapchainCreated =>
    /\ Len(result.value.QueueCreateInfos) = Cardinality(BothFamilies)
    /\ {result.value.QueueCreateInfos[k].queueFamilyIndex :
          k \in 1..Len(result.value.QueueCreateInfos)} = BothFamilies
    /\ \A k \in 1..Len(result.value.QueueCreateInfos) :
         result.value.QueueCreateInfos[k].queueCount = 1

\* The sharing mode is concurrent exactly when the two families differ.
SharingModeByFamilies ==
  DeviceAndSwapchainCreated =>
    result.value.CreateInfo.imageSharingMode =
      IF result.value.Indices.GraphicsFamilyIndex # result.value.Indices.PresentFamilyIndex
      THEN "eConcurrent" ELSE "eExclusive"

\* C37: the logical device is created with one queue per distinct family
\* among the graphics and the present family, and the swapchain shares its
\* images concurrently across those two families exactly when they differ
\* and is exclusive otherwise.
QueuesAndSharingAsSpecified ==
  /\ OneQueuePerFamily
  /\ SharingModeByFamilies
  /\ (DeviceAndSwapchainCreated
      /\ result.value.CreateInfo.imageSharingMode = "eConcurrent")
       => /\ result.value.CreateInfo.queueFamilyIndexCount = 2
          /\ Elements(result.value.CreateInfo.pQueueFamilyIndices) = BothFamilies

-----------------------------------------------------------------------------
(* The stored extension lists (specification SpecPure). *)

\* C38: after construction by either constructor DeviceExtensions is the
\* caller's list followed by RequiredDeviceExtensions (so it contains the
\* swapchain extension) and InstanceExtensions is the caller's list followed
\* by RequiredInstanceExtensions; these are the lists handed to instance and
\* device creation and required of a device.
StoredExtensionsIncludeRequired ==
  (args.fn = "Engine" /\ result # NotCalled) =>
    /\ result.value.DeviceExtensions =
         args.CreateInfo.DeviceExtensions \o RequiredDeviceExtensions
    /\ VK_KHR_SWAPCHAIN_EXTENSION_NAME \in Elements(result.value.DeviceExtensions)
    /\ result.value.InstanceExtensions =
         args.CreateInfo.InstanceExtensions \o RequiredInstanceExtensions
    /\ result.value.createInstanceUnique = result.value.InstanceExtensions
    /\ result.value.createDeviceUnique = result.value.DeviceExtensions
    /\ result.value.RequiredExtensions = Elements(result.value.DeviceExtensions)

\* The same for the constructor of engine/Engine.cpp alone.
EngineStoresRequired ==
  (args.fn = "Engine" /\ args.constructor = "engine::Engine")
    => StoredExtensionsIncludeRequired

====
